---- MODULE Spec2Model ----
(***************************************************************************)
(* Model of src/ensembl.py: the retrying transport (retry_get, retry_post), *)
(* the Ensembl / UniProt / NCBI adapters and the batch resolver             *)
(* annotate_ensembl_ids.                                                    *)
(*                                                                          *)
(* Python strings are sequences of one-character strings, so that strip(),  *)
(* upper(), startswith(), the "in" substring test and the ordering used by  *)
(* sorted() are computed and not assumed.  Free text that the code only     *)
(* tests for truthiness (GO descriptions) is a one-element sequence.        *)
(***************************************************************************)
EXTENDS Integers, Sequences, FiniteSets, TLC

VARIABLES
    cfg,                \* ENABLE_UNIPROT_FALLBACK / ENABLE_NCBI_FALLBACK (lines 33-34)
    providers,          \* how the external providers answer: "any", "scripted",
                        \* or "counted" (as "any", with the attempts counted)
    id_list,            \* the argument of annotate_ensembl_ids
    ids,                \* line 306-307
    k,                  \* number of identifiers the loop of line 312 has taken
    pc,                 \* position in annotate_ensembl_ids (a source line label)
    symbol, gos, go_ids, go_terms, annotation,   \* locals of one loop iteration
    uniprot_id, ncbi_gene_id, query,             \* fallback keys, UniProt query index
    annotations, gene_symbols_seen, all_go_ids,  \* batch accumulators (308-310)
    result,             \* the returned dict (459-482)
    hist,               \* history of the current identifier's cascade
    http,               \* one retry_get / retry_post call in progress
    outcomes,           \* history of the attempt outcomes of that call
    ret,                \* one adapter function called on its own, and what it gave
    other               \* the frame of a second request that is not running now

vars == << cfg, providers, id_list, ids, k, pc, symbol, gos, go_ids, go_terms,
           annotation, uniprot_id, ncbi_gene_id, query, annotations,
           gene_symbols_seen, all_go_ids, result, hist, http, outcomes, ret,
           other >>

(***************************************************************************)
(* Program constants                                                        *)
(***************************************************************************)
MAX_RETRIES == 5
MAX_IDS == 200

(***************************************************************************)
(* Bounds of the model                                                      *)
(***************************************************************************)
\* longest input list of the specification Spec (providers answer freely)
MaxInput == 2
\* the longest input list of SpecScripted has MAX_IDS + LongExtra entries
LongExtra == 50

(***************************************************************************)
(* Python strings                                                           *)
(***************************************************************************)
\* the characters the model uses, in code-point order
Ascii == << " ", "0", "1", "2", "3", "5", "6", "7", "8", ":",
            "A", "B", "C", "D", "E", "G", "H", "L", "N", "O", "P", "T", "X", "Y", "Z",
            "_", "a", "b", "d", "g", "o", "x" >>
LowerCase == << "a", "b", "d", "g", "o", "x" >>
UpperCase == << "A", "B", "D", "G", "O", "X" >>

Ord(c) == CHOOSE i \in 1..Len(Ascii) : Ascii[i] = c

upper_char(c) ==
    IF \E i \in 1..Len(LowerCase) : LowerCase[i] = c
    THEN UpperCase[CHOOSE i \in 1..Len(LowerCase) : LowerCase[i] = c]
    ELSE c

\* str.upper()
upper(s) == [i \in 1..Len(s) |-> upper_char(s[i])]

RECURSIVE lstrip(_)
lstrip(s) == IF s # << >> /\ Head(s) = " " THEN lstrip(Tail(s)) ELSE s

RECURSIVE rstrip(_)
rstrip(s) ==
    IF s # << >> /\ s[Len(s)] = " " THEN rstrip(SubSeq(s, 1, Len(s) - 1)) ELSE s

\* str.strip()
strip(s) == rstrip(lstrip(s))

\* str.startswith(p)
startswith(s, p) == Len(s) >= Len(p) /\ SubSeq(s, 1, Len(p)) = p

\* p in s
contains(s, p) ==
    \E i \in 1..(Len(s) - Len(p) + 1) : SubSeq(s, i, i + Len(p) - 1) = p

\* s < t, the order sorted() puts strings in
RECURSIVE str_lt(_, _)
str_lt(s, t) ==
    IF s = << >> THEN t # << >>
    ELSE IF t = << >> THEN FALSE
    ELSE IF Head(s) = Head(t) THEN str_lt(Tail(s), Tail(t))
    ELSE Ord(Head(s)) < Ord(Head(t))

GO_PREFIX == << "G", "O", ":" >>

(***************************************************************************)
(* Python / JSON values: None, a string, or a number (a truthy value that   *)
(* is not a string; s holds what str() renders)                             *)
(***************************************************************************)
None == [t |-> "none", s |-> << >>]
Str(s) == [t |-> "str", s |-> s]
Num(s) == [t |-> "num", s |-> s]
Text(w) == [t |-> "str", s |-> << w >>]
EmptyStr == Str(<< >>)

\* bool(v)
Truthy(v) == v.t = "num" \/ (v.t = "str" /\ v.s # << >>)
\* a or b
Or(a, b) == IF Truthy(a) THEN a ELSE b
\* isinstance(v, str)
isinstance_str(v) == v.t = "str"

(***************************************************************************)
(* Retrying transport (lines 40-76).  One attempt has an outcome: a          *)
(* response with a status and a body, or a requests.RequestException.       *)
(***************************************************************************)
NoBody == [json |-> "invalid"]
Resp(status, body) == [kind |-> "resp", status |-> status, body |-> body]
Fault == [kind |-> "fault", status |-> 0, body |-> NoBody]
NoResponse == [kind |-> "none", status |-> 0, body |-> NoBody]

\* the locals of retry_get / retry_post as the call starts (lines 41, 60)
HttpStart(method, max_tries) ==
    [method |-> method, max_tries |-> max_tries, attempt |-> 0, backoff |-> 1,
     sleeps |-> << >>, st |-> "loop", r |-> NoResponse]
HttpIdle == [method |-> "none", max_tries |-> 0, attempt |-> 0, backoff |-> 1,
             sleeps |-> << >>, st |-> "idle", r |-> NoResponse]

\* a wrong backoff: the sleep is taken but backoff is not doubled
backoff_and_retry_flat(h) ==
    [h EXCEPT !.attempt = @ + 1,
              !.sleeps = Append(@, h.backoff),
              !.st = IF h.attempt + 1 >= h.max_tries THEN "raised" ELSE "loop"]

\* time.sleep(backoff); backoff *= 2; next iteration, or the raise after the loop
backoff_and_retry(h) ==
    [h EXCEPT !.attempt = @ + 1,
              !.sleeps = Append(@, h.backoff),
              !.backoff = 2 * @,
              !.st = IF h.attempt + 1 >= h.max_tries THEN "raised" ELSE "loop"]

\* return r
return_response(h, o) == [h EXCEPT !.attempt = @ + 1, !.st = "returned", !.r = o]

\* a wrong retry_get: every status other than 200 is retried
retry_get_step_retry_all(h, o) ==
    IF o.kind = "resp" /\ o.status = 200 THEN return_response(h, o)
    ELSE backoff_and_retry(h)

\* one iteration of the loop of retry_get (lines 42-57)
retry_get_step(h, o) ==
    IF o.kind = "resp"
    THEN IF o.status = 200 THEN return_response(h, o)
         ELSE IF o.status \in {429, 503} THEN backoff_and_retry(h)
         ELSE return_response(h, o)
    ELSE backoff_and_retry(h)

\* one iteration of the loop of retry_post (lines 61-76)
retry_post_step(h, o) ==
    IF o.kind = "resp"
    THEN IF o.status = 200 THEN return_response(h, o)
         ELSE IF o.status \in {429, 503} THEN backoff_and_retry(h)
         ELSE return_response(h, o)
    ELSE backoff_and_retry(h)

\* retry_get against a provider whose attempts end as outs says
RECURSIVE retry_get_run(_, _)
retry_get_run(h, outs) ==
    IF outs = << >> \/ h.st # "loop" THEN h
    ELSE retry_get_run(retry_get_step(h, Head(outs)), Tail(outs))

retry_get(outs) == retry_get_run(HttpStart("GET", MAX_RETRIES), outs)

\* `r and r.status_code == 200` (Response.__bool__ is r.ok)
ok200(h) == h.st = "returned" /\ h.r.status = 200

(***************************************************************************)
(* Adapters.  Each takes the finished transport call h (returned or raised) *)
(* and gives [exc, val]: exc says an exception leaves the adapter.          *)
(***************************************************************************)
Returns(v) == [exc |-> FALSE, val |-> v]
Raises == [exc |-> TRUE, val |-> None]

\* get_gene_symbol (lines 79-89); body: [json, display_name, external_name]
get_gene_symbol(h) ==
    IF h.st = "raised" THEN Raises                       \* retry_get raised (82)
    ELSE IF h.r.status # 200 THEN Returns(None)          \* 83-84
    ELSE IF h.r.body.json = "invalid" THEN Returns(None) \* 85-88
    ELSE IF h.r.body.json # "dict" THEN Raises           \* j.get on a non-dict (89)
    ELSE Returns(Or(Or(h.r.body.display_name, h.r.body.external_name), None))

\* (it.get(name) or "").upper() raises when the field is not a string
xref_item_raises(it) ==
    \/ ~isinstance_str(Or(it.dbname, EmptyStr))
    \/ ~isinstance_str(Or(it.db_display_name, EmptyStr))

\* the test of line 105
xref_item_is_go(it) ==
    LET dbname == upper(Or(it.dbname, EmptyStr).s)
        db_display == upper(Or(it.db_display_name, EmptyStr).s)
    IN \/ contains(dbname, << "G", "O" >>)
       \/ contains(db_display, << "G", "O" >>)
       \/ dbname = << "G", "E", "N", "E", "_", "O", "N", "T", "O", "L", "O", "G", "Y" >>

\* lines 106-110: the tuples one item appends to gos
xref_item_gos(it) ==
    LET go_id == Or(Or(it.primary_id, it.id), it.display_id)
        desc == Or(Or(it.description, it.display_id), EmptyStr)
    IN IF xref_item_is_go(it) /\ Truthy(go_id)
       THEN << [gid |-> Str(strip(go_id.s)), desc |-> desc] >>
       ELSE << >>

RECURSIVE xref_gos(_)
xref_gos(items) ==
    IF items = << >> THEN << >>
    ELSE xref_item_gos(Head(items)) \o xref_gos(Tail(items))

\* get_go_xrefs (lines 91-111); body: [json, items]
get_go_xrefs(h) ==
    IF h.st = "raised" THEN Raises                        \* retry_get raised (94)
    ELSE IF h.r.status # 200 THEN Returns(<< >>)          \* 95-96
    ELSE IF h.r.body.json = "invalid" THEN Returns(<< >>) \* 97-100
    ELSE IF h.r.body.json # "list" THEN Raises            \* it.get on a key (103)
    ELSE IF \E i \in 1..Len(h.r.body.items) : xref_item_raises(h.r.body.items[i])
         THEN Raises
    ELSE Returns(xref_gos(h.r.body.items))

\* a wrong pass: a failed query ends the search (return None for continue)
uniprot_search_query_stop_at_failure(h) ==
    IF ~ok200(h) THEN [found |-> TRUE, val |-> None]
    ELSE IF h.r.body.json # "dict" THEN [found |-> FALSE, val |-> None]
    ELSE IF h.r.body.results = << >> THEN [found |-> FALSE, val |-> None]
    ELSE [found |-> TRUE, val |-> h.r.body.results[1].primaryAccession]

\* one pass of the loop of get_uniprot_id_from_ensembl (lines 126-143):
\* [found, val]; found = FALSE is `continue` or the end of the pass
uniprot_search_query(h) ==
    IF ~ok200(h) THEN [found |-> FALSE, val |-> None]              \* 137, 142
    ELSE IF h.r.body.json # "dict" THEN [found |-> FALSE, val |-> None]
    ELSE IF h.r.body.results = << >> THEN [found |-> FALSE, val |-> None]
    ELSE [found |-> TRUE, val |-> h.r.body.results[1].primaryAccession] \* 141

\* get_gene_symbol_from_uniprot after its guard (lines 154-167);
\* body: [json, genes], a gene is [geneName_value]
get_gene_symbol_from_uniprot(h) ==
    IF ~ok200(h) THEN None
    ELSE IF h.r.body.json # "dict" THEN None
    ELSE IF h.r.body.genes = << >> THEN None
    ELSE IF Truthy(h.r.body.genes[1].geneName_value)
         THEN h.r.body.genes[1].geneName_value
    ELSE None

\* lines 186-191: the value of the first property with key "GoTerm", else ""
RECURSIVE go_term_property(_)
go_term_property(properties) ==
    IF properties = << >> THEN EmptyStr
    ELSE IF Head(properties).key = "GoTerm" THEN Head(properties).value
    ELSE go_term_property(Tail(properties))

\* go_id.startswith("GO:") on a truthy value that is not a string raises
startswith_raises(go_id) == Truthy(go_id) /\ ~isinstance_str(go_id)

\* lines 183-192: the tuples one cross reference appends
uniprot_xref_gos(xref) ==
    IF xref.database = "GO" /\ Truthy(xref.id) /\ startswith(xref.id.s, GO_PREFIX)
    THEN << [gid |-> xref.id, desc |-> go_term_property(xref.properties)] >>
    ELSE << >>

RECURSIVE uniprot_gos(_)
uniprot_gos(xrefs) ==
    IF xrefs = << >> THEN << >>
    ELSE uniprot_xref_gos(Head(xrefs)) \o uniprot_gos(Tail(xrefs))

\* get_go_terms_from_uniprot after its guard (lines 174-197);
\* body: [json, xrefs], a cross reference is [database, id, properties]
get_go_terms_from_uniprot(h) ==
    IF ~ok200(h) THEN << >>
    ELSE IF h.r.body.json # "dict" THEN << >>
    ELSE IF \E i \in 1..Len(h.r.body.xrefs) :
               /\ h.r.body.xrefs[i].database = "GO"
               /\ startswith_raises(h.r.body.xrefs[i].id)
         THEN << >>                                        \* except: pass (194)
    ELSE uniprot_gos(h.r.body.xrefs)

\* get_ncbi_gene_id_from_ensembl after its guard (lines 205-223);
\* body: [json, idlist]
get_ncbi_gene_id_from_ensembl(h) ==
    IF ~ok200(h) THEN None
    ELSE IF h.r.body.json # "dict" THEN None
    ELSE IF h.r.body.idlist = << >> THEN None
    ELSE h.r.body.idlist[1]

\* get_gene_symbol_from_ncbi after its guard (lines 230-246); body: [json,
\* present, nomenclature_symbol, name, go_component, go_function, go_process],
\* present says that result holds an entry for ncbi_gene_id
get_gene_symbol_from_ncbi(h) ==
    IF ~ok200(h) THEN None
    ELSE IF h.r.body.json # "dict" THEN None
    ELSE IF ~h.r.body.present THEN None                    \* {}.get(...) or {}.get(...)
    ELSE Or(h.r.body.nomenclature_symbol, h.r.body.name)

\* lines 271-276: the tuples one term appends; a term is [value, label]
ncbi_term_gos(term) ==
    IF isinstance_str(term.value) /\ startswith(term.value.s, GO_PREFIX)
    THEN << [gid |-> term.value, desc |-> term.label] >>
    ELSE << >>

RECURSIVE ncbi_gos(_)
ncbi_gos(terms) ==
    IF terms = << >> THEN << >>
    ELSE ncbi_term_gos(Head(terms)) \o ncbi_gos(Tail(terms))

\* the terms of the three fields in the order of line 267
ncbi_fields(body) == body.go_component \o body.go_function \o body.go_process

\* get_go_terms_from_ncbi after its guard (lines 253-280)
get_go_terms_from_ncbi(h) ==
    IF ~ok200(h) THEN << >>
    ELSE IF h.r.body.json # "dict" THEN << >>
    ELSE IF ~h.r.body.present THEN << >>
    ELSE IF \E i \in 1..Len(ncbi_fields(h.r.body)) :
               ~isinstance_str(ncbi_fields(h.r.body)[i].value)
         THEN << >>                                        \* except: pass (278)
    ELSE ncbi_gos(ncbi_fields(h.r.body))

(***************************************************************************)
(* Completeness policy and the merge of GO tuples into a record             *)
(***************************************************************************)
\* annotation.get(key, default)
dict_get(d, key, default) == IF key \in DOMAIN d THEN d[key] ELSE default
\* annotation[key] = value
dict_set(d, key, value) == [x \in DOMAIN d \cup {key} |-> IF x = key THEN value ELSE d[x]]

\* .strip() on the gene_symbol of the record raises when it is not a string
needs_fallback_raises(a) == ~isinstance_str(a.gene_symbol)

\* a wrong needs_fallback: the negation of the symbol test left out
needs_fallback_missing_not(a) ==
    LET has_symbol == strip(a.gene_symbol.s) # << >>
        has_go_terms == a.go_ids # << >>
    IN has_symbol \/ ~has_go_terms

\* a wrong needs_fallback: both the symbol and the GO ids must be missing
needs_fallback_both_missing(a) ==
    LET has_symbol == strip(a.gene_symbol.s) # << >>
        has_go_terms == a.go_ids # << >>
    IN ~has_symbol /\ ~has_go_terms

\* needs_fallback (lines 288-292)
needs_fallback(a) ==
    LET has_symbol == strip(a.gene_symbol.s) # << >>
        has_go_terms == a.go_ids # << >>
    IN ~has_symbol \/ ~has_go_terms

\* is_annotation_complete (lines 282-286)
is_annotation_complete(a) ==
    LET has_symbol == strip(a.gene_symbol.s) # << >>
        has_go_terms == a.go_ids # << >>
    IN has_symbol /\ has_go_terms

\* a wrong test: digits are demanded after the prefix
go_tuple_ok_digits(t) ==
    /\ isinstance_str(t.gid)
    /\ startswith(upper(t.gid.s), GO_PREFIX)
    /\ \A i \in 4..Len(t.gid.s) : t.gid.s[i] \in {"0", "1", "2", "3", "4", "5", "6", "7", "8", "9"}

\* the test of lines 332, 377, 416
go_tuple_ok(t) == isinstance_str(t.gid) /\ startswith(upper(t.gid.s), GO_PREFIX)

\* a wrong loop: no tuple passes the test
accepted_none(tuples) == << >>

\* the tuples the loops of lines 331-336, 376-381, 415-420 keep
RECURSIVE accepted(_)
accepted(tuples) ==
    IF tuples = << >> THEN << >>
    ELSE (IF go_tuple_ok(Head(tuples)) THEN << Head(tuples) >> ELSE << >>)
         \o accepted(Tail(tuples))

\* what the loop appends to go_ids, to go_terms and adds to all_go_ids
new_go_ids(tuples) ==
    [i \in 1..Len(accepted(tuples)) |-> upper(accepted(tuples)[i].gid.s)]
\* a wrong go_terms.append: only descriptions that are not empty are kept
new_go_terms_described(tuples) ==
    SelectSeq([i \in 1..Len(accepted(tuples)) |-> Or(accepted(tuples)[i].desc, EmptyStr)],
              Truthy)

new_go_terms(tuples) ==
    [i \in 1..Len(accepted(tuples)) |-> Or(accepted(tuples)[i].desc, EmptyStr)]
\* a wrong all_go_ids.add: the id as the provider spelled it
new_all_go_ids_raw(seen, tuples) ==
    seen \cup {accepted(tuples)[i].gid.s : i \in 1..Len(accepted(tuples))}

new_all_go_ids(seen, tuples) ==
    seen \cup {new_go_ids(tuples)[i] : i \in 1..Len(new_go_ids(tuples))}

(***************************************************************************)
(* The providers.  A call is answered by a behaviour: the outcomes of its   *)
(* successive attempts.  Pool(endpoint) holds the 200 bodies a provider may *)
(* send; the strings are those of the specification's scenarios.            *)
(***************************************************************************)
GENEX == << "G", "E", "N", "E", "X" >>
ABC1 == << "A", "B", "C", "1" >>
XYZ2 == << "X", "Y", "Z", "2" >>
BLANK == << " " >>
P12345 == << "P", "1", "2", "3", "5" >>
GENE672 == << "6", "7", "2" >>
GO_0005515 == << "G", "O", ":", "0", "0", "0", "5", "5", "1", "5" >>
GO_0008150 == << "G", "O", ":", "0", "0", "0", "8", "1", "5", "0" >>
go_0008150 == << "g", "o", ":", "0", "0", "0", "8", "1", "5", "0" >>
go123 == << "g", "o", "1", "2", "3" >>
GO_bad == << "G", "O", ":", "b", "a", "d" >>
GO_BAD == << "G", "O", ":", "B", "A", "D" >>
Seven == Num(<< "7" >>)

LookupDoc(json, dn, en) == [json |-> json, display_name |-> dn, external_name |-> en]
LookupPool ==
    { LookupDoc("dict", Str(ABC1), None),
      LookupDoc("dict", None, Str(XYZ2)),
      LookupDoc("dict", Str(BLANK), None),
      LookupDoc("dict", Seven, None),
      LookupDoc("dict", EmptyStr, None),
      LookupDoc("list", None, None),
      LookupDoc("invalid", None, None) }

XrefItem(dbname, dbdisp, pid, id, disp, desc) ==
    [dbname |-> dbname, db_display_name |-> dbdisp, primary_id |-> pid, id |-> id,
     display_id |-> disp, description |-> desc]
XrefsDoc(json, items) == [json |-> json, items |-> items]
XrefsPool ==
    { XrefsDoc("list", << >>),
      XrefsDoc("list", << XrefItem(Str(<< "H", "G", "N", "C" >>), None, Str(GO_0008150),
                                   None, None, None),
                          XrefItem(Str(<< "G", "O" >>), None, Str(GO_0005515), None,
                                   None, Text("protein binding")) >>),
      XrefsDoc("list", << XrefItem(None, Str(<< "g", "o" >>), None,
                                   Str(<< " " >> \o go_0008150 \o << " " >>), None, None) >>),
      XrefsDoc("list", << XrefItem(Str(<< "G", "E", "N", "E", "_", "O", "N", "T", "O",
                                          "L", "O", "G", "Y" >>), None, Str(go123), None,
                                   None, Text("x")) >>),
      XrefsDoc("list", << XrefItem(Str(<< "G", "O" >>), None, None, None, Seven, None) >>),
      XrefsDoc("list", << XrefItem(Seven, None, Str(GO_0005515), None, None, None) >>),
      XrefsDoc("dict", << >>),
      XrefsDoc("invalid", << >>) }

SearchDoc(json, results) == [json |-> json, results |-> results]
SearchPool ==
    { SearchDoc("dict", << >>),
      SearchDoc("dict", << [primaryAccession |-> Str(P12345)] >>),
      SearchDoc("dict", << [primaryAccession |-> None] >>),
      SearchDoc("invalid", << >>) }

GenesDoc(json, genes) == [json |-> json, genes |-> genes]
GenesPool ==
    { GenesDoc("dict", << >>),
      GenesDoc("dict", << [geneName_value |-> Str(ABC1)] >>),
      GenesDoc("dict", << [geneName_value |-> Seven] >>),
      GenesDoc("dict", << [geneName_value |-> None] >>),
      GenesDoc("invalid", << >>) }

GoXref(id, properties) == [database |-> "GO", id |-> id, properties |-> properties]
EntryDoc(json, xrefs) == [json |-> json, xrefs |-> xrefs]
EntryPool ==
    { EntryDoc("dict", << >>),
      EntryDoc("dict", << [database |-> "Pfam", id |-> Str(GO_bad), properties |-> << >>],
                          GoXref(Str(GO_0005515),
                                 << [key |-> "GoAspect", value |-> Text("F")],
                                    [key |-> "GoTerm", value |-> Text("protein binding")] >>) >>),
      EntryDoc("dict", << GoXref(Str(go_0008150), << >>) >>),
      EntryDoc("dict", << GoXref(Str(go123), << >>) >>),
      EntryDoc("dict", << GoXref(Str(GO_0005515), << >>), GoXref(Seven, << >>) >>),
      EntryDoc("invalid", << >>) }

EsearchDoc(json, idlist) == [json |-> json, idlist |-> idlist]
EsearchPool ==
    { EsearchDoc("dict", << >>),
      EsearchDoc("dict", << Str(GENE672) >>),
      EsearchDoc("invalid", << >>) }

Term(value, label) == [value |-> value, label |-> label]
EsummaryDoc(json, present, ns, name, comp, func, proc) ==
    [json |-> json, present |-> present, nomenclature_symbol |-> ns, name |-> name,
     go_component |-> comp, go_function |-> func, go_process |-> proc]
EsummaryPool ==
    { EsummaryDoc("dict", FALSE, None, None, << >>, << >>, << >>),
      EsummaryDoc("dict", TRUE, Str(XYZ2), Str(ABC1), << >>,
                  << Term(Str(GO_0005515), Text("protein binding")),
                     Term(Str(GO_bad), Text("x")) >>, << >>),
      EsummaryDoc("dict", TRUE, EmptyStr, Str(XYZ2), << Term(Str(go123), EmptyStr) >>,
                  << >>, << Term(Str(go_0008150), EmptyStr) >>),
      EsummaryDoc("dict", TRUE, Seven, None, << Term(Str(GO_0005515), None) >>,
                  << Term(Seven, None) >>, << >>),
      EsummaryDoc("invalid", FALSE, None, None, << >>, << >>, << >>) }

Endpoints == { "ensembl/lookup", "ensembl/xrefs", "uniprot/search", "uniprot/genes",
               "uniprot/entry", "ncbi/esearch", "ncbi/esummary" }

Pool(endpoint) ==
    CASE endpoint = "ensembl/lookup" -> LookupPool
      [] endpoint = "ensembl/xrefs" -> XrefsPool
      [] endpoint = "uniprot/search" -> SearchPool
      [] endpoint = "uniprot/genes" -> GenesPool
      [] endpoint = "uniprot/entry" -> EntryPool
      [] endpoint = "ncbi/esearch" -> EsearchPool
      [] endpoint = "ncbi/esummary" -> EsummaryPool

\* the retryable outcomes a call may meet before its last attempt
Transient ==
    [i \in 1..MAX_RETRIES |->
        << Resp(429, NoBody), Fault, Resp(503, NoBody) >>[((i - 1) % 3) + 1]]

\* the behaviours of a provider that answers freely: at once, after one
\* retry, at the last attempt, or never
AnyBehaviour ==
    [endpoint \in Endpoints |->
        { SubSeq(Transient, 1, n) \o << t >> :
            n \in {0, 1, MAX_RETRIES - 1},
            t \in {Resp(200, b) : b \in Pool(endpoint)} \cup {Resp(404, NoBody)} }
        \cup { Transient }]

(***************************************************************************)
(* History of one identifier's cascade: which adapter functions were        *)
(* called, which providers were slept for and contacted, whether the        *)
(* transport call just made used up its attempts, what the Primary          *)
(* lookups gave (the symbol, the number of GO ids with the prefix, the      *)
(* record built from them at lines 339-344), the GO pairs a fallback        *)
(* provider sent in the lookup just made (kept until the next step), and    *)
(* the record as it stood when the UniProt stage was over.                  *)
(***************************************************************************)
NoAnnotation == [ensembl_id |-> << >>, gene_symbol |-> EmptyStr,
                 go_ids |-> << >>, go_terms |-> << >>]

NotAsked == [asked |-> FALSE, pairs |-> << >>]
NotReached == [reached |-> FALSE, gene_symbol |-> EmptyStr, go_ids |-> << >>]
HistStart ==
    [issued |-> {}, outbound |-> {}, delayed |-> {}, exhausted |-> FALSE,
     attempts |-> 0,
     primary_symbol |-> None,
     primary_go |-> 0, primary_record |-> NoAnnotation,
     raw |-> [uniprot |-> NotAsked, ncbi |-> NotAsked], after_uniprot |-> NotReached]

\* time.sleep(SLEEP_BETWEEN...) then retry_get, inside adapter function name;
\* outs is how the attempts of that retry_get end
hist_call(hh, name, provider, outs) ==
    [hh EXCEPT !.issued = @ \cup {name}, !.outbound = @ \cup {provider},
               !.delayed = @ \cup {provider},
               !.exhausted = (retry_get(outs).st = "raised"),
               !.attempts = IF providers = "counted"
                            THEN @ + retry_get(outs).attempt ELSE @]

\* a step that makes no transport call
quiet(hh) == [hh EXCEPT !.exhausted = FALSE]

\* the pairs whose id is a string that starts with "GO:" in any letter case
RECURSIVE with_go_prefix(_)
with_go_prefix(pairs) ==
    IF pairs = << >> THEN << >>
    ELSE (IF Head(pairs).gid.t = "str" /\ Len(Head(pairs).gid.s) >= 3
             /\ Head(pairs).gid.s[1] \in {"G", "g"} /\ Head(pairs).gid.s[2] \in {"O", "o"}
             /\ Head(pairs).gid.s[3] = ":"
          THEN << Head(pairs) >> ELSE << >>) \o with_go_prefix(Tail(pairs))

snapshot(a) == [reached |-> TRUE, gene_symbol |-> a.gene_symbol, go_ids |-> a.go_ids]

RECURSIVE raw_uniprot_pairs(_)
raw_uniprot_pairs(xrefs) ==
    IF xrefs = << >> THEN << >>
    ELSE (IF Head(xrefs).database = "GO"
          THEN << [gid |-> Head(xrefs).id, desc |-> go_term_property(Head(xrefs).properties)] >>
          ELSE << >>) \o raw_uniprot_pairs(Tail(xrefs))
raw_uniprot(h) ==
    [asked |-> TRUE,
     pairs |-> IF ok200(h) /\ h.r.body.json = "dict"
               THEN raw_uniprot_pairs(h.r.body.xrefs) ELSE << >>]
raw_ncbi(h) ==
    [asked |-> TRUE,
     pairs |-> IF ok200(h) /\ h.r.body.json = "dict" /\ h.r.body.present
               THEN [i \in 1..Len(ncbi_fields(h.r.body)) |->
                        [gid |-> ncbi_fields(h.r.body)[i].value,
                         desc |-> ncbi_fields(h.r.body)[i].label]]
               ELSE << >>]

(***************************************************************************)
(* annotate_ensembl_ids (lines 295-482)                                     *)
(***************************************************************************)
\* a wrong reading of the switch: UniProt taken as enabled whatever line 33 says
UniprotEnabledAlways == TRUE

UniprotEnabled == cfg.uniprot
NcbiEnabled == cfg.ncbi

\* a wrong list of search strategies: a fourth one
search_queries_four == << "database:ensembl AND", "xref:ensembl-", "gene:", "id:" >>

\* the three search strategies of lines 120-124
search_queries == << "database:ensembl AND", "xref:ensembl-", "gene:" >>

\* line 306: [str(x).strip() for x in id_list if x and str(x).strip()]
\* (the comprehension is unfolded by halves, which keeps the nesting shallow
\* on long inputs)
RECURSIVE clean_ids(_)
clean_ids(l) ==
    IF l = << >> THEN << >>
    ELSE IF Len(l) = 1
    THEN (IF l[1] # << >> /\ strip(l[1]) # << >> THEN << strip(l[1]) >> ELSE << >>)
    ELSE clean_ids(SubSeq(l, 1, Len(l) \div 2))
         \o clean_ids(SubSeq(l, (Len(l) \div 2) + 1, Len(l)))

\* a wrong line 307: no truncation
truncate_none(l) == l

\* line 307: ids[:MAX_IDS]
truncate(l) == SubSeq(l, 1, IF Len(l) < MAX_IDS THEN Len(l) ELSE MAX_IDS)

enid == ids[k]

\* a wrong `if not symbol`: never taken
not_symbol_never(v) == FALSE

\* a wrong `if not symbol`: always taken
not_symbol_always(v) == TRUE

\* lines 360, 399: `if not symbol`
not_symbol(v) == ~Truthy(v)

\* a wrong `if not go_ids`: always taken
not_go_ids_always(l) == TRUE

\* lines 371, 410: `if not go_ids`
not_go_ids(l) == l = << >>

Flags == { "_uniprot_fallback_used", "_ncbi_fallback_used", "_uniprot_symbol_added",
           "_uniprot_go_added", "_ncbi_symbol_added", "_ncbi_go_added" }

\* Scripted providers: what each endpoint answers depends on the identifier
\* alone.  GENEX is the end-to-end scenario (no Primary data, UniProt gives a
\* key and the symbol ABC1 but no GO term, NCBI gives a key and two terms);
\* X8 meets providers whose every attempt is retryable; any other identifier
\* is complete after the Primary lookups, the first of them after two 429s.
G1 == << "G", "1" >>
X8 == << "X", "8" >>
ScriptGENEX ==
    [endpoint \in Endpoints |->
        CASE endpoint = "ensembl/lookup" -> << Resp(200, LookupDoc("dict", None, None)) >>
          [] endpoint = "ensembl/xrefs" -> << Resp(200, XrefsDoc("list", << >>)) >>
          [] endpoint = "uniprot/search" ->
                << Resp(200, SearchDoc("dict", << [primaryAccession |-> Str(P12345)] >>)) >>
          [] endpoint = "uniprot/genes" ->
                << Resp(200, GenesDoc("dict", << [geneName_value |-> Str(ABC1)] >>)) >>
          [] endpoint = "uniprot/entry" -> << Resp(200, EntryDoc("dict", << >>)) >>
          [] endpoint = "ncbi/esearch" -> << Resp(200, EsearchDoc("dict", << Str(GENE672) >>)) >>
          [] endpoint = "ncbi/esummary" ->
                << Resp(200, EsummaryDoc("dict", TRUE, None, None, << >>,
                                         << Term(Str(GO_0005515), Text("protein binding")),
                                            Term(Str(GO_bad), Text("x")) >>, << >>)) >>]
ScriptOther ==
    [endpoint \in Endpoints |->
        CASE endpoint = "ensembl/lookup" ->
                << Resp(429, NoBody), Resp(429, NoBody),
                   Resp(200, LookupDoc("dict", Str(ABC1), None)) >>
          [] endpoint = "ensembl/xrefs" ->
                << Resp(200, XrefsDoc("list",
                      << XrefItem(Str(<< "G", "O" >>), None, Str(GO_0005515), None, None,
                                  Text("protein binding")) >>)) >>
          [] OTHER -> << Resp(404, NoBody) >>]
Script(endpoint, id) ==
    IF id = GENEX THEN ScriptGENEX[endpoint]
    ELSE IF id = X8 THEN Transient
    ELSE ScriptOther[endpoint]

\* the behaviours the provider may show for a call made for identifier id
Behaviours(endpoint, id) ==
    IF providers \in {"any", "counted"} THEN AnyBehaviour[endpoint]
    ELSE {Script(endpoint, id)}

\* lines 306-310
Normalize ==
    /\ pc = "L306"
    /\ ids' = truncate(clean_ids(id_list))
    /\ annotations' = << >>
    /\ gene_symbols_seen' = << >>
    /\ all_go_ids' = {}
    /\ pc' = "L312"
    /\ UNCHANGED << ret, other, cfg, providers, id_list, k, symbol, gos, go_ids, go_terms,
                    annotation, uniprot_id, ncbi_gene_id, query, result, hist,
                    http, outcomes >>

\* lines 312-319: the next identifier, the polite delay and get_gene_symbol.
\* The locals of the previous iteration are dead here (each is assigned again
\* before it is read: 323, 329, 330, 339, 350, 389), so they are cleared.
PrimarySymbol ==
    /\ pc = "L312"
    /\ k < Len(ids)
    /\ k' = k + 1
    /\ \E outs \in Behaviours("ensembl/lookup", ids[k + 1]) :
          LET res == get_gene_symbol(retry_get(outs))
              sym == IF res.exc THEN None ELSE res.val       \* 318-319
          IN /\ symbol' = sym
             /\ hist' = [hist_call(HistStart, "get_gene_symbol", "ensembl", outs)
                            EXCEPT !.primary_symbol = sym]
    /\ gos' = << >>
    /\ go_ids' = << >>
    /\ go_terms' = << >>
    /\ annotation' = NoAnnotation
    /\ uniprot_id' = None
    /\ ncbi_gene_id' = None
    /\ query' = 0
    /\ pc' = "L322"
    /\ UNCHANGED << ret, other, cfg, providers, id_list, ids, annotations, gene_symbols_seen,
                    all_go_ids, result, http, outcomes >>

\* lines 322-344: the polite delay, get_go_xrefs, the GO filter, the record
PrimaryGo ==
    /\ pc = "L322"
    /\ \E outs \in Behaviours("ensembl/xrefs", enid) :
          LET res == get_go_xrefs(retry_get(outs))
              tuples == IF res.exc THEN << >> ELSE res.val   \* 326-327
          IN /\ gos' = tuples
             /\ go_ids' = new_go_ids(tuples)
             /\ go_terms' = new_go_terms(tuples)
             /\ all_go_ids' = new_all_go_ids(all_go_ids, tuples)
             /\ annotation' = [ensembl_id |-> enid,
                               gene_symbol |-> Or(symbol, EmptyStr),
                               go_ids |-> new_go_ids(tuples),
                               go_terms |-> new_go_terms(tuples)]
             /\ hist' = [hist_call(hist, "get_go_xrefs", "ensembl", outs)
                            EXCEPT !.primary_go = Len(with_go_prefix(tuples)),
                                   !.primary_record =
                                       [ensembl_id |-> enid,
                                        gene_symbol |-> Or(symbol, EmptyStr),
                                        go_ids |-> new_go_ids(tuples),
                                        go_terms |-> new_go_terms(tuples)]]
    /\ pc' = "L347"
    /\ UNCHANGED << ret, other, cfg, providers, id_list, ids, k, symbol, uniprot_id,
                    ncbi_gene_id, query, annotations, gene_symbols_seen, result,
                    http, outcomes >>

\* lines 347-349: needs_fallback, then the UniProt switch.  gos is not read
\* after line 336 and is dropped here.
CheckFallback ==
    /\ pc = "L347"
    /\ IF needs_fallback_raises(annotation)
       THEN pc' = "raised" /\ hist' = quiet(hist)
       ELSE IF ~needs_fallback(annotation)
       THEN pc' = "L426"
            /\ hist' = [quiet(hist) EXCEPT !.after_uniprot = snapshot(annotation)]
       ELSE IF UniprotEnabled
       THEN pc' = "L352" /\ hist' = quiet(hist)
       ELSE pc' = "L388" /\ hist' = quiet(hist)
    /\ gos' = << >>
    /\ UNCHANGED << ret, other, cfg, providers, id_list, ids, k, symbol, go_ids, go_terms,
                    annotation, uniprot_id, ncbi_gene_id, query, annotations,
                    gene_symbols_seen, all_go_ids, result, http, outcomes >>

\* lines 350-352 and 114-124: get_uniprot_id_from_ensembl is called
UniprotXrefCall ==
    /\ pc = "L352"
    /\ hist' = [quiet(hist) EXCEPT !.issued = @ \cup {"get_uniprot_id_from_ensembl"}]
    /\ uniprot_id' = None
    /\ IF ~UniprotEnabled                                    \* 116-117
       THEN pc' = "L356" /\ query' = 0
       ELSE pc' = "L126" /\ query' = 1
    /\ UNCHANGED << ret, other, cfg, providers, id_list, ids, k, symbol, gos, go_ids, go_terms,
                    annotation, ncbi_gene_id, annotations, gene_symbols_seen,
                    all_go_ids, result, http, outcomes >>

\* lines 126-144: one search query; the first hit is returned
UniprotQuery ==
    /\ pc = "L126"
    /\ \E outs \in Behaviours("uniprot/search", enid) :
          LET res == uniprot_search_query(retry_get(outs))
          IN /\ IF res.found
                THEN uniprot_id' = res.val /\ query' = 0 /\ pc' = "L356"
                ELSE IF query < Len(search_queries)
                THEN uniprot_id' = None /\ query' = query + 1 /\ pc' = "L126"
                ELSE uniprot_id' = None /\ query' = 0 /\ pc' = "L356"
             /\ hist' = hist_call(hist, "get_uniprot_id_from_ensembl", "uniprot", outs)
    /\ UNCHANGED << ret, other, cfg, providers, id_list, ids, k, symbol, gos, go_ids, go_terms,
                    annotation, ncbi_gene_id, annotations, gene_symbols_seen,
                    all_go_ids, result, http, outcomes >>

\* lines 356-357
UniprotKey ==
    /\ pc = "L356"
    /\ IF Truthy(uniprot_id)
       THEN /\ annotation' = dict_set(annotation, "_uniprot_fallback_used", TRUE)
            /\ pc' = "L360"
       ELSE /\ annotation' = annotation
            /\ pc' = "L388"
    /\ hist' = quiet(hist)
    /\ UNCHANGED << ret, other, cfg, providers, id_list, ids, k, symbol, gos, go_ids, go_terms,
                    uniprot_id, ncbi_gene_id, query, annotations, gene_symbols_seen,
                    all_go_ids, result, http, outcomes >>

\* lines 360-368 and 146-167
UniprotSymbol ==
    /\ pc = "L360"
    /\ IF ~not_symbol(symbol)                                \* 360
       THEN hist' = quiet(hist) /\ UNCHANGED << symbol, annotation >>
       ELSE IF ~UniprotEnabled \/ ~Truthy(uniprot_id)        \* 148-149
       THEN /\ hist' = [quiet(hist) EXCEPT !.issued = @ \cup {"get_gene_symbol_from_uniprot"}]
            /\ UNCHANGED << symbol, annotation >>
       ELSE \E outs \in Behaviours("uniprot/genes", enid) :
               LET uniprot_symbol == get_gene_symbol_from_uniprot(retry_get(outs))
               IN /\ hist' = hist_call(hist, "get_gene_symbol_from_uniprot", "uniprot", outs)
                  /\ IF Truthy(uniprot_symbol)               \* 363-366
                     THEN /\ annotation' =
                                dict_set(dict_set(annotation, "gene_symbol", uniprot_symbol),
                                         "_uniprot_symbol_added", TRUE)
                          /\ symbol' = uniprot_symbol
                     ELSE UNCHANGED << symbol, annotation >>
    /\ pc' = "L371"
    /\ UNCHANGED << ret, other, cfg, providers, id_list, ids, k, gos, go_ids, go_terms,
                    uniprot_id, ncbi_gene_id, query, annotations, gene_symbols_seen,
                    all_go_ids, result, http, outcomes >>

\* lines 371-385 and 169-197
UniprotGo ==
    /\ pc = "L371"
    /\ IF ~not_go_ids(go_ids)                                \* 371
       THEN hist' = quiet(hist) /\ UNCHANGED << go_ids, go_terms, all_go_ids, annotation >>
       ELSE IF ~UniprotEnabled \/ ~Truthy(uniprot_id)        \* 171-172
       THEN /\ hist' = [quiet(hist) EXCEPT !.issued = @ \cup {"get_go_terms_from_uniprot"}]
            /\ UNCHANGED << go_ids, go_terms, all_go_ids, annotation >>
       ELSE \E outs \in Behaviours("uniprot/entry", enid) :
               LET h == retry_get(outs)
                   uniprot_gos_ == get_go_terms_from_uniprot(h)
                   flagged == IF uniprot_gos_ # << >>        \* 374-375
                              THEN dict_set(annotation, "_uniprot_go_added", TRUE)
                              ELSE annotation
               IN /\ hist' = [hist_call(hist, "get_go_terms_from_uniprot", "uniprot", outs)
                                 EXCEPT !.raw.uniprot = raw_uniprot(h)]
                  /\ go_ids' = go_ids \o new_go_ids(uniprot_gos_)
                  /\ go_terms' = go_terms \o new_go_terms(uniprot_gos_)
                  /\ all_go_ids' = new_all_go_ids(all_go_ids, uniprot_gos_)
                  /\ annotation' =
                        dict_set(dict_set(flagged, "go_ids",
                                          go_ids \o new_go_ids(uniprot_gos_)),
                                 "go_terms", go_terms \o new_go_terms(uniprot_gos_))
    /\ pc' = "L388"
    /\ UNCHANGED << ret, other, cfg, providers, id_list, ids, k, symbol, gos, uniprot_id,
                    ncbi_gene_id, query, annotations, gene_symbols_seen, result,
                    http, outcomes >>

\* line 388: ENABLE_NCBI_FALLBACK and needs_fallback(annotation)
CheckNcbi ==
    /\ pc = "L388"
    /\ hist' = [quiet(hist) EXCEPT !.after_uniprot = snapshot(annotation),
                                    !.raw.uniprot = NotAsked]
    /\ IF ~NcbiEnabled THEN pc' = "L426"
       ELSE IF needs_fallback_raises(annotation) THEN pc' = "raised"
       ELSE IF needs_fallback(annotation) THEN pc' = "L391"
       ELSE pc' = "L426"
    /\ UNCHANGED << ret, other, cfg, providers, id_list, ids, k, symbol, gos, go_ids, go_terms,
                    annotation, uniprot_id, ncbi_gene_id, query, annotations,
                    gene_symbols_seen, all_go_ids, result, http, outcomes >>

\* lines 389-396 and 200-223
NcbiXref ==
    /\ pc = "L391"
    /\ IF ~NcbiEnabled                                       \* 202-203
       THEN /\ hist' = [quiet(hist) EXCEPT !.issued = @ \cup {"get_ncbi_gene_id_from_ensembl"}]
            /\ ncbi_gene_id' = None
            /\ annotation' = annotation
            /\ pc' = "L426"
       ELSE \E outs \in Behaviours("ncbi/esearch", enid) :
               LET id == get_ncbi_gene_id_from_ensembl(retry_get(outs))
               IN /\ hist' = hist_call(hist, "get_ncbi_gene_id_from_ensembl", "ncbi", outs)
                  /\ ncbi_gene_id' = id
                  /\ IF Truthy(id)                           \* 395-396
                     THEN /\ annotation' = dict_set(annotation, "_ncbi_fallback_used", TRUE)
                          /\ pc' = "L399"
                     ELSE /\ annotation' = annotation
                          /\ pc' = "L426"
    /\ UNCHANGED << ret, other, cfg, providers, id_list, ids, k, symbol, gos, go_ids, go_terms,
                    uniprot_id, query, annotations, gene_symbols_seen, all_go_ids,
                    result, http, outcomes >>

\* lines 399-407 and 225-246
NcbiSymbol ==
    /\ pc = "L399"
    /\ IF ~not_symbol(symbol)                                \* 399
       THEN hist' = quiet(hist) /\ UNCHANGED << symbol, annotation >>
       ELSE IF ~NcbiEnabled \/ ~Truthy(ncbi_gene_id)         \* 227-228
       THEN /\ hist' = [quiet(hist) EXCEPT !.issued = @ \cup {"get_gene_symbol_from_ncbi"}]
            /\ UNCHANGED << symbol, annotation >>
       ELSE \E outs \in Behaviours("ncbi/esummary", enid) :
               LET ncbi_symbol == get_gene_symbol_from_ncbi(retry_get(outs))
               IN /\ hist' = hist_call(hist, "get_gene_symbol_from_ncbi", "ncbi", outs)
                  /\ IF Truthy(ncbi_symbol)                  \* 402-405
                     THEN /\ annotation' =
                                dict_set(dict_set(annotation, "gene_symbol", ncbi_symbol),
                                         "_ncbi_symbol_added", TRUE)
                          /\ symbol' = ncbi_symbol
                     ELSE UNCHANGED << symbol, annotation >>
    /\ pc' = "L410"
    /\ UNCHANGED << ret, other, cfg, providers, id_list, ids, k, gos, go_ids, go_terms,
                    uniprot_id, ncbi_gene_id, query, annotations, gene_symbols_seen,
                    all_go_ids, result, http, outcomes >>

\* lines 410-424 and 248-280
NcbiGo ==
    /\ pc = "L410"
    /\ IF ~not_go_ids(go_ids)                                \* 410
       THEN hist' = quiet(hist) /\ UNCHANGED << go_ids, go_terms, all_go_ids, annotation >>
       ELSE IF ~NcbiEnabled \/ ~Truthy(ncbi_gene_id)         \* 250-251
       THEN /\ hist' = [quiet(hist) EXCEPT !.issued = @ \cup {"get_go_terms_from_ncbi"}]
            /\ UNCHANGED << go_ids, go_terms, all_go_ids, annotation >>
       ELSE \E outs \in Behaviours("ncbi/esummary", enid) :
               LET h == retry_get(outs)
                   ncbi_gos_ == get_go_terms_from_ncbi(h)
                   flagged == IF ncbi_gos_ # << >>           \* 413-414
                              THEN dict_set(annotation, "_ncbi_go_added", TRUE)
                              ELSE annotation
               IN /\ hist' = [hist_call(hist, "get_go_terms_from_ncbi", "ncbi", outs)
                                 EXCEPT !.raw.ncbi = raw_ncbi(h)]
                  /\ go_ids' = go_ids \o new_go_ids(ncbi_gos_)
                  /\ go_terms' = go_terms \o new_go_terms(ncbi_gos_)
                  /\ all_go_ids' = new_all_go_ids(all_go_ids, ncbi_gos_)
                  /\ annotation' =
                        dict_set(dict_set(flagged, "go_ids",
                                          go_ids \o new_go_ids(ncbi_gos_)),
                                 "go_terms", go_terms \o new_go_terms(ncbi_gos_))
    /\ pc' = "L426"
    /\ UNCHANGED << ret, other, cfg, providers, id_list, ids, k, symbol, gos, uniprot_id,
                    ncbi_gene_id, query, annotations, gene_symbols_seen, result,
                    http, outcomes >>

\* lines 426-428
AppendRecord ==
    /\ pc = "L426"
    /\ annotations' = Append(annotations, annotation)
    /\ gene_symbols_seen' = IF Truthy(symbol) THEN Append(gene_symbols_seen, symbol)
                            ELSE gene_symbols_seen
    /\ hist' = [quiet(hist) EXCEPT !.raw.ncbi = NotAsked]
    /\ pc' = "L312"
    /\ UNCHANGED << ret, other, cfg, providers, id_list, ids, k, symbol, gos, go_ids, go_terms,
                    annotation, uniprot_id, ncbi_gene_id, query, all_go_ids, result,
                    http, outcomes >>

\* sorted() on a set of strings
RECURSIVE sorted_str(_)
sorted_str(S) ==
    IF S = {} THEN << >>
    ELSE LET m == CHOOSE x \in S : \A y \in S : x = y \/ str_lt(x, y)
         IN << m >> \o sorted_str(S \ {m})

\* sorted() compares; comparing a number with a string raises TypeError
sorted_raises(S) == \E x, y \in S : x # y /\ (x.t # "str" \/ y.t # "str")

\* a wrong sorted(): descending order
sorted_descending(S) ==
    IF \A x \in S : x.t = "str"
    THEN [i \in 1..Cardinality(S) |->
             Str(sorted_str({x.s : x \in S})[Cardinality(S) + 1 - i])]
    ELSE [i \in 1..Cardinality(S) |-> CHOOSE x \in S : TRUE]

\* sorted() on a set of values that can be compared
sorted(S) ==
    IF \A x \in S : x.t = "str"
    THEN [i \in 1..Cardinality(S) |-> Str(sorted_str({x.s : x \in S})[i])]
    ELSE [i \in 1..Cardinality(S) |-> CHOOSE x \in S : TRUE]

\* a wrong count: every record is counted, flagged or not
flag_count_total(records, flag) == Len(records)

\* lines 438-450: the number of records that carry a flag
flag_count(records, flag) ==
    Cardinality({i \in 1..Len(records) : dict_get(records[i], flag, FALSE)})

\* a wrong clean-up: the last pop (line 457) is forgotten
pop_flags_but_last(a) == [x \in (DOMAIN a) \ (Flags \ {"_ncbi_go_added"}) |-> a[x]]

\* lines 452-457: annotation.pop(flag, None) for the six flags
pop_flags(a) == [x \in (DOMAIN a) \ Flags |-> a[x]]

VERSION == "v1.0.0"

NoResult == [annotations |-> << >>, gene_symbols |-> << >>, go_ids |-> << >>,
             meta |-> [version |-> "", count_input |-> 0, count_processed |-> 0,
                       uniprot_fallback |-> [enabled |-> FALSE, fallback_used_count |-> 0,
                                             symbols_added_from_uniprot |-> 0,
                                             go_terms_added_from_uniprot |-> 0],
                       ncbi_fallback |-> [enabled |-> FALSE, fallback_used_count |-> 0,
                                          symbols_added_from_ncbi |-> 0,
                                          go_terms_added_from_ncbi |-> 0]]]

\* lines 459-481
make_result(records, stripped) ==
    [annotations |-> stripped,
     gene_symbols |->
        sorted({gene_symbols_seen[i] : i \in {j \in 1..Len(gene_symbols_seen) :
                                                Truthy(gene_symbols_seen[j])}}),
     go_ids |-> sorted_str(all_go_ids),
     meta |-> [version |-> VERSION,
               count_input |-> Len(id_list),
               count_processed |-> Len(ids),
               uniprot_fallback |->
                  [enabled |-> UniprotEnabled,
                   fallback_used_count |-> flag_count(records, "_uniprot_fallback_used"),
                   symbols_added_from_uniprot |-> flag_count(records, "_uniprot_symbol_added"),
                   go_terms_added_from_uniprot |-> flag_count(records, "_uniprot_go_added")],
               ncbi_fallback |->
                  [enabled |-> NcbiEnabled,
                   fallback_used_count |-> flag_count(records, "_ncbi_fallback_used"),
                   symbols_added_from_ncbi |-> flag_count(records, "_ncbi_symbol_added"),
                   go_terms_added_from_ncbi |-> flag_count(records, "_ncbi_go_added")]]]

\* lines 430-482: the loop is over; count the flags, pop them, build the result
Aggregate ==
    /\ pc = "L312"
    /\ k = Len(ids)
    /\ annotations' = [i \in 1..Len(annotations) |-> pop_flags(annotations[i])]
    /\ IF sorted_raises({gene_symbols_seen[i] : i \in 1..Len(gene_symbols_seen)})  \* 461
       THEN pc' = "raised" /\ result' = result
       ELSE /\ pc' = "done"
            /\ result' = make_result(annotations,
                            [i \in 1..Len(annotations) |-> pop_flags(annotations[i])])
    /\ annotation' = pop_flags(annotation)    \* the same dict as annotations[-1]
    /\ UNCHANGED << ret, other, cfg, providers, id_list, ids, k, symbol, gos, go_ids, go_terms,
                    uniprot_id, ncbi_gene_id, query, gene_symbols_seen,
                    all_go_ids, hist, http, outcomes >>

(***************************************************************************)
(* Spec: every input list of at most MaxInput entries, either configuration *)
(* of the two switches, providers that answer freely                        *)
(***************************************************************************)
\* no adapter function is being called on its own
NoCall == [adapter |-> "none", st |-> "idle", failed |-> FALSE, val |-> None]
\* no second request
NoFrame == [present |-> FALSE]

IdPool == { GENEX, << " ", " " >> }
ShortLists == UNION { [1..n -> IdPool] : n \in 0..MaxInput }

InitLocals ==
    /\ ids = << >>
    /\ k = 0
    /\ symbol = None
    /\ gos = << >>
    /\ go_ids = << >>
    /\ go_terms = << >>
    /\ annotation = NoAnnotation
    /\ uniprot_id = None
    /\ ncbi_gene_id = None
    /\ query = 0
    /\ annotations = << >>
    /\ gene_symbols_seen = << >>
    /\ all_go_ids = {}
    /\ result = NoResult
    /\ hist = HistStart
    /\ http = HttpIdle
    /\ outcomes = << >>
    /\ ret = NoCall
    /\ other = NoFrame

Init ==
    /\ cfg \in [uniprot : BOOLEAN, ncbi : BOOLEAN]
    /\ providers = "any"
    /\ id_list \in ShortLists
    /\ pc = "L306"
    /\ InitLocals

Next ==
    \/ Normalize
    \/ PrimarySymbol
    \/ PrimaryGo
    \/ CheckFallback
    \/ UniprotXrefCall
    \/ UniprotQuery
    \/ UniprotKey
    \/ UniprotSymbol
    \/ UniprotGo
    \/ CheckNcbi
    \/ NcbiXref
    \/ NcbiSymbol
    \/ NcbiGo
    \/ AppendRecord
    \/ Aggregate

Spec == Init /\ [][Next]_vars

(***************************************************************************)
(* SpecScripted: the same program against the scripted providers, with the  *)
(* switches as the source sets them (lines 33-34), on the scenario input    *)
(* and on input lists around and beyond MAX_IDS entries                     *)
(***************************************************************************)
\* entry j of a long list: repeated, padded and blank entries among the rest
LongEntry(pattern, j) ==
    IF pattern = "plain" THEN G1
    ELSE << G1, << " ", " " >>, << " " >> \o G1 \o << " " >>, X8, << >>, G1, GENEX >>[((j - 1) % 7) + 1]
LongList(pattern, n) == [j \in 1..n |-> LongEntry(pattern, j)]
LongLengths == { MAX_IDS - 1, MAX_IDS, MAX_IDS + 1, MAX_IDS + LongExtra }
ScriptedLists ==
    { << GENEX >>, << GENEX, X8, G1 >> }
    \cup { LongList(pattern, n) : pattern \in {"plain", "mixed"}, n \in LongLengths }

InitScripted ==
    /\ cfg = [uniprot |-> TRUE, ncbi |-> TRUE]
    /\ providers = "scripted"
    /\ id_list \in ScriptedLists
    /\ pc = "L306"
    /\ InitLocals

SpecScripted == InitScripted /\ [][Next]_vars

(***************************************************************************)
(* SpecTransport: one call of retry_get or retry_post on its own, against   *)
(* every sequence of attempt outcomes                                       *)
(***************************************************************************)
OkBody == [json |-> "dict"]
AttemptOutcomes ==
    { Resp(200, OkBody), Resp(429, NoBody), Resp(503, NoBody), Resp(404, NoBody),
      Resp(500, NoBody), Fault }

\* lines 42-57: the next attempt of retry_get and what becomes of it
RetryGetAttempt ==
    /\ pc = "retry_get"
    /\ http.st = "loop"
    /\ \E o \in AttemptOutcomes :
          /\ http' = retry_get_step(http, o)
          /\ outcomes' = Append(outcomes, o)
    /\ UNCHANGED << ret, other, cfg, providers, id_list, ids, k, pc, symbol, gos, go_ids,
                    go_terms, annotation, uniprot_id, ncbi_gene_id, query,
                    annotations, gene_symbols_seen, all_go_ids, result, hist >>

\* lines 61-76: the next attempt of retry_post and what becomes of it
RetryPostAttempt ==
    /\ pc = "retry_post"
    /\ http.st = "loop"
    /\ \E o \in AttemptOutcomes :
          /\ http' = retry_post_step(http, o)
          /\ outcomes' = Append(outcomes, o)
    /\ UNCHANGED << ret, other, cfg, providers, id_list, ids, k, pc, symbol, gos, go_ids,
                    go_terms, annotation, uniprot_id, ncbi_gene_id, query,
                    annotations, gene_symbols_seen, all_go_ids, result, hist >>

InitTransport ==
    /\ cfg = [uniprot |-> TRUE, ncbi |-> TRUE]
    /\ providers = "any"
    /\ id_list = << >>
    /\ ids = << >>
    /\ k = 0
    /\ symbol = None
    /\ gos = << >>
    /\ go_ids = << >>
    /\ go_terms = << >>
    /\ annotation = NoAnnotation
    /\ uniprot_id = None
    /\ ncbi_gene_id = None
    /\ query = 0
    /\ annotations = << >>
    /\ gene_symbols_seen = << >>
    /\ all_go_ids = {}
    /\ result = NoResult
    /\ hist = HistStart
    /\ outcomes = << >>
    /\ ret = NoCall
    /\ other = NoFrame
    /\ \E method \in {"GET", "POST"} :
          /\ pc = (IF method = "GET" THEN "retry_get" ELSE "retry_post")
          /\ http = HttpStart(method, MAX_RETRIES)

NextTransport == RetryGetAttempt \/ RetryPostAttempt

SpecTransport == InitTransport /\ [][NextTransport]_vars

(***************************************************************************)
(* SpecAdapters: one adapter function called on its own, with both switches *)
(* on and a truthy argument, against a provider that answers freely         *)
(***************************************************************************)
AdapterNames ==
    { "get_gene_symbol", "get_go_xrefs", "get_uniprot_id_from_ensembl",
      "get_gene_symbol_from_uniprot", "get_go_terms_from_uniprot",
      "get_ncbi_gene_id_from_ensembl", "get_gene_symbol_from_ncbi",
      "get_go_terms_from_ncbi" }

\* the URL family each adapter function calls
AdapterEndpoint(name) ==
    CASE name = "get_gene_symbol" -> "ensembl/lookup"
      [] name = "get_go_xrefs" -> "ensembl/xrefs"
      [] name = "get_uniprot_id_from_ensembl" -> "uniprot/search"
      [] name = "get_gene_symbol_from_uniprot" -> "uniprot/genes"
      [] name = "get_go_terms_from_uniprot" -> "uniprot/entry"
      [] name = "get_ncbi_gene_id_from_ensembl" -> "ncbi/esearch"
      [] name = "get_gene_symbol_from_ncbi" -> "ncbi/esummary"
      [] name = "get_go_terms_from_ncbi" -> "ncbi/esummary"

\* a returned list, as a value
List(l) == [t |-> "list", s |-> l]

\* what the adapter function gives its caller once its transport call h is
\* over: [exc, val]
adapter_result(name, h) ==
    CASE name = "get_gene_symbol" -> get_gene_symbol(h)
      [] name = "get_go_xrefs" ->
            [exc |-> get_go_xrefs(h).exc,
             val |-> IF get_go_xrefs(h).exc THEN None ELSE List(get_go_xrefs(h).val)]
      [] name = "get_gene_symbol_from_uniprot" -> Returns(get_gene_symbol_from_uniprot(h))
      [] name = "get_go_terms_from_uniprot" -> Returns(List(get_go_terms_from_uniprot(h)))
      [] name = "get_ncbi_gene_id_from_ensembl" -> Returns(get_ncbi_gene_id_from_ensembl(h))
      [] name = "get_gene_symbol_from_ncbi" -> Returns(get_gene_symbol_from_ncbi(h))
      [] name = "get_go_terms_from_ncbi" -> Returns(List(get_go_terms_from_ncbi(h)))

\* an adapter function with one transport call runs from its call to its end
AdapterCall ==
    /\ pc = "adapter"
    /\ ret.st = "called"
    /\ ret.adapter # "get_uniprot_id_from_ensembl"
    /\ \E outs \in AnyBehaviour[AdapterEndpoint(ret.adapter)] :
          LET h == retry_get(outs)
              res == adapter_result(ret.adapter, h)
          IN /\ http' = h
             /\ ret' = [ret EXCEPT !.st = IF res.exc THEN "raised" ELSE "returned",
                                   !.val = res.val,
                                   !.failed = ~ok200(h)]
    /\ UNCHANGED << other, cfg, providers, id_list, ids, k, pc, symbol, gos, go_ids,
                    go_terms, annotation, uniprot_id, ncbi_gene_id, query,
                    annotations, gene_symbols_seen, all_go_ids, result, hist,
                    outcomes >>

\* lines 126-144: one pass of the query loop of get_uniprot_id_from_ensembl
AdapterSearch ==
    /\ pc = "adapter"
    /\ ret.st = "called"
    /\ ret.adapter = "get_uniprot_id_from_ensembl"
    /\ \E outs \in AnyBehaviour["uniprot/search"] :
          LET h == retry_get(outs)
              res == uniprot_search_query(h)
              last == query + 1 = Len(search_queries)
          IN /\ http' = h
             /\ query' = IF res.found \/ last THEN query ELSE query + 1
             /\ ret' = [ret EXCEPT !.st = IF res.found \/ last THEN "returned" ELSE "called",
                                   !.val = res.val,
                                   !.failed = ret.failed /\ ~ok200(h)]
    /\ UNCHANGED << other, cfg, providers, id_list, ids, k, pc, symbol, gos, go_ids,
                    go_terms, annotation, uniprot_id, ncbi_gene_id,
                    annotations, gene_symbols_seen, all_go_ids, result, hist,
                    outcomes >>

InitAdapters ==
    /\ cfg = [uniprot |-> TRUE, ncbi |-> TRUE]
    /\ providers = "any"
    /\ id_list = << GENEX >>
    /\ ids = << GENEX >>
    /\ k = 1
    /\ pc = "adapter"
    /\ symbol = None
    /\ gos = << >>
    /\ go_ids = << >>
    /\ go_terms = << >>
    /\ annotation = NoAnnotation
    /\ uniprot_id = Str(P12345)
    /\ ncbi_gene_id = Str(GENE672)
    /\ query = 0
    /\ annotations = << >>
    /\ gene_symbols_seen = << >>
    /\ all_go_ids = {}
    /\ result = NoResult
    /\ hist = HistStart
    /\ http = HttpIdle
    /\ outcomes = << >>
    /\ other = NoFrame
    /\ \E name \in AdapterNames :
          ret = [adapter |-> name, st |-> "called", failed |-> TRUE, val |-> None]

NextAdapters == AdapterCall \/ AdapterSearch

SpecAdapters == InitAdapters /\ [][NextAdapters]_vars



(***************************************************************************)
(* SpecAttempts: a batch against providers that answer freely, with the     *)
(* transport attempts of each identifier's cascade counted in hist.attempts *)
(* (a history the program does not read).  The loop of line 312 is          *)
(* sequential and each request has a timeout (lines 44, 63), so a step that *)
(* can be taken is taken: weak fairness of every step.                      *)
(***************************************************************************)
InitAttempts ==
    /\ cfg \in [uniprot : BOOLEAN, ncbi : BOOLEAN]
    /\ providers = "counted"
    /\ id_list \in { << >>, << GENEX >>, << << " ", " " >>, GENEX >> }
    /\ pc = "L306"
    /\ InitLocals

SpecAttempts == InitAttempts /\ [][Next]_vars /\ WF_vars(Next)

(***************************************************************************)
(* SpecConcurrent: the request layer (lines 503-547) serves two calls of    *)
(* annotate_ensembl_ids whose steps interleave.  The variables of Spec hold *)
(* the frame of the call that is running; `other` holds the frame of the    *)
(* call that is waiting.  cfg is the module-level state both calls read     *)
(* (lines 30-34); nothing in the module writes it.                          *)
(***************************************************************************)
\* the frame of the running call
running_frame ==
    [present |-> TRUE, id_list |-> id_list, ids |-> ids, k |-> k, pc |-> pc,
     symbol |-> symbol, gos |-> gos, go_ids |-> go_ids, go_terms |-> go_terms,
     annotation |-> annotation, uniprot_id |-> uniprot_id,
     ncbi_gene_id |-> ncbi_gene_id, query |-> query, annotations |-> annotations,
     gene_symbols_seen |-> gene_symbols_seen, all_go_ids |-> all_go_ids,
     result |-> result, hist |-> hist]

\* the frame of a call that has not started: annotate() passes it its own list (543)
new_frame(l) ==
    [present |-> TRUE, id_list |-> l, ids |-> << >>, k |-> 0, pc |-> "L306",
     symbol |-> None, gos |-> << >>, go_ids |-> << >>, go_terms |-> << >>,
     annotation |-> NoAnnotation, uniprot_id |-> None, ncbi_gene_id |-> None,
     query |-> 0, annotations |-> << >>, gene_symbols_seen |-> << >>,
     all_go_ids |-> {}, result |-> NoResult, hist |-> HistStart]

\* a wrong binding: all_go_ids is one set at module level, seen by both calls
binding_module_level(frame, name, current) ==
    IF name = "all_go_ids" THEN current ELSE frame[name]

\* the value a name has for the call that resumes: every name the function
\* uses is bound inside the call (306-310 for the accumulators), so it is the
\* call's own
binding(frame, name, current) == frame[name]

\* the scheduler lets the waiting call run and the running call wait
Switch ==
    /\ other.present
    /\ other' = running_frame
    /\ id_list' = binding(other, "id_list", id_list)
    /\ ids' = binding(other, "ids", ids)
    /\ k' = binding(other, "k", k)
    /\ pc' = binding(other, "pc", pc)
    /\ symbol' = binding(other, "symbol", symbol)
    /\ gos' = binding(other, "gos", gos)
    /\ go_ids' = binding(other, "go_ids", go_ids)
    /\ go_terms' = binding(other, "go_terms", go_terms)
    /\ annotation' = binding(other, "annotation", annotation)
    /\ uniprot_id' = binding(other, "uniprot_id", uniprot_id)
    /\ ncbi_gene_id' = binding(other, "ncbi_gene_id", ncbi_gene_id)
    /\ query' = binding(other, "query", query)
    /\ annotations' = binding(other, "annotations", annotations)
    /\ gene_symbols_seen' = binding(other, "gene_symbols_seen", gene_symbols_seen)
    /\ all_go_ids' = binding(other, "all_go_ids", all_go_ids)
    /\ result' = binding(other, "result", result)
    /\ hist' = binding(other, "hist", hist)
    /\ UNCHANGED << cfg, providers, http, outcomes, ret >>

\* the lists the two requests carry: at most MAX_IDS entries each (540-541)
ConcurrentLists == { << GENEX >>, << X8, G1 >>, << G1, GENEX >> }

\* a second request arrives while the first is being served; its call waits
Arrive ==
    /\ ~other.present
    /\ \E l \in ConcurrentLists : other' = new_frame(l)
    /\ UNCHANGED << cfg, providers, id_list, ids, k, pc, symbol, gos, go_ids, go_terms,
                    annotation, uniprot_id, ncbi_gene_id, query, annotations,
                    gene_symbols_seen, all_go_ids, result, hist, http, outcomes, ret >>

InitConcurrent ==
    /\ cfg = [uniprot |-> TRUE, ncbi |-> TRUE]
    /\ providers = "scripted"
    /\ id_list \in ConcurrentLists
    /\ pc = "L306"
    /\ InitLocals

NextConcurrent ==
    \/ Normalize
    \/ PrimarySymbol
    \/ PrimaryGo
    \/ CheckFallback
    \/ UniprotXrefCall
    \/ UniprotQuery
    \/ UniprotKey
    \/ UniprotSymbol
    \/ UniprotGo
    \/ CheckNcbi
    \/ NcbiXref
    \/ NcbiSymbol
    \/ NcbiGo
    \/ AppendRecord
    \/ Aggregate
    \/ Arrive
    \/ Switch

SpecConcurrent == InitConcurrent /\ [][NextConcurrent]_vars

(***************************************************************************)
(* Properties                                                               *)
(***************************************************************************)
FallbackAdapters ==
    { "get_uniprot_id_from_ensembl", "get_gene_symbol_from_uniprot",
      "get_go_terms_from_uniprot", "get_ncbi_gene_id_from_ensembl",
      "get_gene_symbol_from_ncbi", "get_go_terms_from_ncbi" }
FallbackProviders == { "uniprot", "ncbi" }

\* a string with at least one character that is not a space
NonBlank(v) == v.t = "str" /\ \E i \in 1..Len(v.s) : v.s[i] # " "

\* a record lacks a non-blank symbol or lacks GO ids
Incomplete(r) == ~NonBlank(r.gene_symbol) \/ Len(r.go_ids) = 0

CascadeLabels ==
    { "L322", "L347", "L352", "L126", "L356", "L360", "L371", "L388", "L391",
      "L399", "L410", "L426" }

\* C2: in every step of a cascade that starts with a non-empty symbol the
\* symbol keeps its value, the step that appends the record emits that value
\* as gene_symbol, and the final pass over the records leaves every
\* gene_symbol as it was appended.
C2_SymbolKeptOnceSet ==
    [][ /\ (pc \in CascadeLabels /\ Truthy(symbol)) => symbol' = symbol
        /\ (pc \in CascadeLabels \ {"L322"} /\ pc' \in CascadeLabels /\ Truthy(symbol))
              => annotation'.gene_symbol = symbol
        /\ (pc = "L426" /\ Truthy(symbol))
              => annotations'[Len(annotations')].gene_symbol = symbol
        /\ (pc = "L312" /\ pc' \in {"done", "raised"})
              => /\ \A i \in 1..Len(annotations) :
                       annotations'[i].gene_symbol = annotations[i].gene_symbol
                 /\ pc' = "done" =>
                       \A i \in 1..Len(annotations) :
                          result'.annotations[i].gene_symbol = annotations[i].gene_symbol
      ]_vars

\* UniProt set the symbol, and the NCBI symbol stage has been passed with a
\* cross-reference key in hand
C2_Witness ==
    /\ pc = "L410"
    /\ "_uniprot_symbol_added" \in DOMAIN annotation
    /\ Truthy(ncbi_gene_id)
    /\ symbol = Str(ABC1)
    /\ annotation.gene_symbol = Str(ABC1)

\* the batch of the one identifier GENEX against the scripted providers is over
EmittedGENEX == providers = "scripted" /\ id_list = << GENEX >> /\ pc = "done"

\* the four counters the scenario names
ScenarioCounters ==
    /\ result.meta.uniprot_fallback.fallback_used_count = 1
    /\ result.meta.uniprot_fallback.symbols_added_from_uniprot = 1
    /\ result.meta.ncbi_fallback.fallback_used_count = 1
    /\ result.meta.ncbi_fallback.go_terms_added_from_ncbi = 1

\* C3 as claimed: in the end-to-end scenario the emitted record has
\* gene_symbol "ABC1", go_ids ["GO:0005515"], go_terms ["protein binding"],
\* and the counters are UniProt used 1, symbols added 1, NCBI used 1, GO added 1.
C3_AsClaimed ==
    EmittedGENEX =>
        /\ Len(result.annotations) = 1
        /\ result.annotations[1].gene_symbol = Str(ABC1)
        /\ result.annotations[1].go_ids = << GO_0005515 >>
        /\ result.annotations[1].go_terms = << Text("protein binding") >>
        /\ ScenarioCounters

\* C3 amended: in the end-to-end scenario the emitted record has gene_symbol
\* "ABC1", go_ids ["GO:0005515", "GO:BAD"], go_terms ["protein binding", "x"]
\* (the pair ("GO:bad", "x") carries the prefix and is kept, upper-cased), and
\* the counters are UniProt used 1, symbols added 1, NCBI used 1, GO added 1.
C3_ScenarioKeepsPrefixedPair ==
    EmittedGENEX =>
        /\ Len(result.annotations) = 1
        /\ result.annotations[1].ensembl_id = GENEX
        /\ result.annotations[1].gene_symbol = Str(ABC1)
        /\ result.annotations[1].go_ids = << GO_0005515, GO_BAD >>
        /\ result.annotations[1].go_terms = << Text("protein binding"), Text("x") >>
        /\ ScenarioCounters

\* the scenario has run to its result, and every fallback lookup the
\* scenario describes was made
C3_Witness ==
    /\ EmittedGENEX
    /\ cfg.uniprot /\ cfg.ncbi
    /\ result.meta.count_processed = 1
    /\ hist.primary_symbol = None /\ hist.primary_go = 0
    /\ { "get_gene_symbol_from_uniprot", "get_go_terms_from_uniprot",
         "get_go_terms_from_ncbi" } \subseteq hist.issued

\* the ids a provider's pairs should leave in the record: those with the
\* prefix in either letter case, upper-cased, in the order sent
Normalized(pairs) ==
    [i \in 1..Len(with_go_prefix(pairs)) |-> upper(with_go_prefix(pairs)[i].gid.s)]
NoNumericId(pairs) == \A i \in 1..Len(pairs) : pairs[i].gid.t # "num"

\* C4 as claimed: for Primary, UniProt and NCBI alike, once the provider's GO
\* lookup has been merged the record's go_ids are exactly the upper-cased ids
\* of the pairs the provider sent whose id starts with "GO:" in either letter
\* case: an id without the prefix leaves nothing, a lower-case one is accepted.
C4_AsClaimed ==
    /\ pc = "L347" => go_ids = Normalized(gos)
    /\ (hist.raw.uniprot.asked /\ NoNumericId(hist.raw.uniprot.pairs))
          => go_ids = Normalized(hist.raw.uniprot.pairs)
    /\ (hist.raw.ncbi.asked /\ NoNumericId(hist.raw.ncbi.pairs))
          => go_ids = Normalized(hist.raw.ncbi.pairs)

\* the NCBI cross-reference lookup of line 391 is at hand or has been made
NcbiStageEntered ==
    pc \in {"L391", "L399", "L410"} \/ "get_ncbi_gene_id_from_ensembl" \in hist.issued

C6_DisabledFallbacksEmitPrimary ==
    (~cfg.uniprot /\ ~cfg.ncbi) =>
        /\ hist.outbound \cap FallbackProviders = {}
        /\ hist.delayed \cap FallbackProviders = {}
        /\ hist.issued \cap FallbackAdapters = {}
        /\ (k >= 1 /\ Len(annotations) = k) => annotations[k] = hist.primary_record
        /\ (k >= 1 /\ pc = "done") => result.annotations[k] = hist.primary_record

\* both fallbacks are disabled and a record with neither symbol nor GO ids
\* has been emitted
C6_Witness ==
    /\ ~cfg.uniprot /\ ~cfg.ncbi
    /\ pc = "done" /\ k >= 1
    /\ result.annotations[k].gene_symbol = EmptyStr
    /\ result.annotations[k].go_ids = << >>
    /\ Incomplete(hist.primary_record)

\* an entry with a character that is not a space, and what trimming leaves of it
HasInk(e) == \E i \in 1..Len(e) : e[i] # " "
Trimmed(e) ==
    LET first == CHOOSE i \in 1..Len(e) : e[i] # " " /\ \A j \in 1..(i - 1) : e[j] = " "
        last == CHOOSE i \in 1..Len(e) : e[i] # " " /\ \A j \in (i + 1)..Len(e) : e[j] = " "
    IN SubSeq(e, first, last)
Smaller(a, b) == IF a < b THEN a ELSE b

\* C7: when the batch is over, the emitted annotations are, one for one and in
\* order, the first MAX_IDS entries of the input that are not empty or
\* whitespace-only, each trimmed and repeats kept; count_processed is their
\* number and count_input is the length of the input list.
C7_FirstMaxIdsInOrder ==
    pc = "done" =>
        LET kept == SelectSeq(id_list, HasInk)
            n == Smaller(Len(kept), MAX_IDS)
        IN /\ Len(result.annotations) = n
           /\ \A i \in 1..n : result.annotations[i].ensembl_id = Trimmed(kept[i])
           /\ result.meta.count_processed = n
           /\ result.meta.count_input = Len(id_list)

\* an input of more than MAX_IDS valid identifiers has been processed
C7_Witness ==
    /\ pc = "done"
    /\ Len(id_list) = MAX_IDS + LongExtra
    /\ \A i \in 1..Len(id_list) : HasInk(id_list[i])
    /\ result.meta.count_processed = MAX_IDS
    /\ result.meta.count_input = MAX_IDS + LongExtra
    /\ Len(result.annotations) = MAX_IDS

\* the GO ids of the emitted records, as a set
RecordGoIds ==
    UNION { { result.annotations[i].go_ids[j] : j \in 1..Len(result.annotations[i].go_ids) }
            : i \in 1..Len(result.annotations) }

\* C8: when the batch is over, the batch-level go_ids are in strictly
\* ascending order (so none occurs twice), none has a lower-case letter, and
\* as a set they are the GO ids that occur in the go_ids of the emitted records.
C8_BatchGoIds ==
    pc = "done" =>
        /\ \A i \in 1..(Len(result.go_ids) - 1) : str_lt(result.go_ids[i], result.go_ids[i + 1])
        /\ \A i \in 1..Len(result.go_ids) :
              \A j \in 1..Len(result.go_ids[i]) : result.go_ids[i][j] \notin { LowerCase[c] : c \in 1..Len(LowerCase) }
        /\ { result.go_ids[i] : i \in 1..Len(result.go_ids) } = RecordGoIds
        /\ Cardinality(RecordGoIds) = Len(result.go_ids)

\* two records carry the same GO id, one of them has a second one that a
\* provider spelled in lower case, and the batch-level list has both once
C8_Witness ==
    /\ pc = "done"
    /\ Len(result.annotations) = 2
    /\ result.annotations[1].go_ids = << GO_0005515 >>
    /\ result.annotations[2].go_ids = << GO_0005515, GO_BAD >>
    /\ result.go_ids = << GO_0005515, GO_BAD >>

\* the non-empty gene_symbol values of the emitted records, as a set
RecordSymbols ==
    { result.annotations[i].gene_symbol : i \in { j \in 1..Len(result.annotations) :
                                   result.annotations[j].gene_symbol # EmptyStr } }

\* C9: when the batch is over, the batch-level gene_symbols are in strictly
\* ascending order (so none occurs twice), none is empty, and as a set they
\* are the non-empty gene_symbol values of the emitted records.
C9_BatchGeneSymbols ==
    pc = "done" =>
        /\ \A i \in 1..(Len(result.gene_symbols) - 1) :
              /\ result.gene_symbols[i].t = "str"
              /\ result.gene_symbols[i + 1].t = "str"
              /\ str_lt(result.gene_symbols[i].s, result.gene_symbols[i + 1].s)
        /\ \A i \in 1..Len(result.gene_symbols) :
              result.gene_symbols[i] \notin {EmptyStr, None}
        /\ { result.gene_symbols[i] : i \in 1..Len(result.gene_symbols) } = RecordSymbols

\* two records with different symbols, emitted in descending order, and the
\* batch-level list in ascending order
C9_Witness ==
    /\ pc = "done"
    /\ Len(result.annotations) = 2
    /\ result.annotations[1].gene_symbol = Str(XYZ2)
    /\ result.annotations[2].gene_symbol = Str(ABC1)
    /\ result.gene_symbols = << Str(ABC1), Str(XYZ2) >>

\* an outcome that ends the call: a response whose status is not 429 or 503
Final(o) == o.kind = "resp" /\ o.status \notin {429, 503}

\* C10: in a call of retry_get or retry_post, an attempt that ends with a
\* response whose status is neither 429 nor 503 is the last attempt: the call
\* has returned that response, the attempts made are those up to it, and the
\* sleeps made are one per earlier attempt; two 429s and then a 200 give the
\* 200 after exactly 3 attempts.
C10_ReturnsAtFirstFinalResponse ==
    /\ \A i \in 1..Len(outcomes) :
          Final(outcomes[i]) =>
              /\ i = Len(outcomes)
              /\ http.st = "returned"
              /\ http.r = outcomes[i]
              /\ http.attempt = i
              /\ Len(http.sleeps) = i - 1
    /\ (Len(outcomes) >= 3 /\ SubSeq(outcomes, 1, 3) =
            << Resp(429, NoBody), Resp(429, NoBody), Resp(200, OkBody) >>)
          => /\ Len(outcomes) = 3
             /\ http.st = "returned"
             /\ http.r = Resp(200, OkBody)
             /\ http.attempt = 3

\* retry_get has met two 429s and then a 200
C10_Witness ==
    /\ pc = "retry_get"
    /\ outcomes = << Resp(429, NoBody), Resp(429, NoBody), Resp(200, OkBody) >>
    /\ http.st = "returned"
    /\ http.r.status = 200
    /\ http.sleeps = << 1, 2 >>

\* "no data": None or an empty list
NoData(v) == v = None \/ v = List(<< >>)

\* C11 as claimed: when an adapter function is over and every transport call
\* it made failed terminally or gave a non-200 response, the function has
\* returned (no exception left it) and what it returned is None or an empty
\* list.
C11_AsClaimed ==
    (ret.st \in {"returned", "raised"} /\ ret.failed)
        => (ret.st = "returned" /\ NoData(ret.val))

\* C11 for the six fallback adapter functions, where it holds: whatever the
\* transport did, the function returns, and with no 200 response it returns
\* None or an empty list.
C11_FallbackAdaptersTolerant ==
    (ret.adapter \notin {"get_gene_symbol", "get_go_xrefs"})
        => /\ ret.st # "raised"
           /\ (ret.st = "returned" /\ ret.failed) => NoData(ret.val)

\* a symbol that is not a string has been met in the batch
NonStringSymbolMet ==
    \/ symbol.t = "num"
    \/ annotation.gene_symbol.t = "num"
    \/ \E i \in 1..Len(gene_symbols_seen) : gene_symbols_seen[i].t = "num"

\* the step just taken made a transport call that used up its attempts
ExhaustedStep == hist'.exhausted

\* C12: a step whose transport call uses up its attempts (every attempt 429,
\* 503 or a fault) never raises; the lookup it belongs to counts as absent
\* (symbol, GO lists, keys and record are as if it had given nothing) and the
\* cascade goes on to the step that follows; annotate_ensembl_ids raises only
\* where a symbol that is not a string was met, and a batch that ends has
\* emitted one record for every identifier.
C12_ExhaustionIsAbsence ==
    [][ /\ pc' = "raised" => NonStringSymbolMet'
        /\ pc' = "done" => Len(result'.annotations) = Len(ids')
        /\ ExhaustedStep =>
             /\ pc' # "raised"
             /\ pc = "L312" => (symbol' = None /\ pc' = "L322")
             /\ pc = "L322" => /\ go_ids' = << >> /\ go_terms' = << >>
                               /\ annotation'.gene_symbol = Or(symbol, EmptyStr)
                               /\ annotation'.go_ids = << >>
                               /\ pc' = "L347"
             /\ pc = "L126" => /\ uniprot_id' = None
                               /\ annotation' = annotation
                               /\ IF query < Len(search_queries)
                                  THEN pc' = "L126" /\ query' = query + 1
                                  ELSE pc' = "L356"
             /\ pc = "L360" => (symbol' = symbol /\ annotation' = annotation /\ pc' = "L371")
             /\ pc = "L371" => (go_ids' = go_ids /\ annotation' = annotation /\ pc' = "L388")
             /\ pc = "L391" => (ncbi_gene_id' = None /\ annotation' = annotation /\ pc' = "L426")
             /\ pc = "L399" => (symbol' = symbol /\ annotation' = annotation /\ pc' = "L410")
             /\ pc = "L410" => (go_ids' = go_ids /\ annotation' = annotation /\ pc' = "L426")
      ]_vars

\* the NCBI cross-reference lookup of the first of two identifiers has just
\* used up its attempts, after the Primary and UniProt lookups gave nothing,
\* and the record is about to be appended
C12_Witness ==
    /\ cfg.uniprot /\ cfg.ncbi
    /\ pc = "L426" /\ k = 1 /\ Len(ids) = 2
    /\ hist.exhausted
    /\ {"get_uniprot_id_from_ensembl", "get_ncbi_gene_id_from_ensembl"} \subseteq hist.issued
    /\ annotation.gene_symbol = EmptyStr /\ annotation.go_ids = << >>

\* C13 as claimed: whatever the shape of the 200 payloads the providers send
\* (a symbol that is not a string, a document that is not a list or not an
\* object, a GO id that is not a string), annotate_ensembl_ids does not raise:
\* every cascade goes on and the batch ends with a result.
C13_AsClaimed == pc # "raised"

\* C13 for the payloads where it holds: as long as no symbol that is not a
\* string was met, annotate_ensembl_ids has not raised, whatever else the
\* payloads held.
C13_OtherShapesAreNoData == ~NonStringSymbolMet => pc # "raised"

\* the two lists of a record have the same length
SameLength(r) == Len(r.go_ids) = Len(r.go_terms)

\* every entry of the lists ids / terms is a pair the provider delivered: the
\* id upper-cased, the description as sent or "" when there was none
DeliveredTogether(ids_, terms, pairs) ==
    \A i \in 1..Len(ids_) :
        \E j \in 1..Len(pairs) :
            /\ pairs[j].gid.t = "str"
            /\ upper(pairs[j].gid.s) = ids_[i]
            /\ Or(pairs[j].desc, EmptyStr) = terms[i]

\* C14: in every state, go_ids and go_terms have the same length, in the
\* locals, in the record at hand, in every appended record and in every
\* record of the result; and right after a provider's GO lookup was merged,
\* entry i of go_terms is the description delivered with the id at entry i of
\* go_ids (the empty string when none came).
C14_GoListsAligned ==
    /\ Len(go_ids) = Len(go_terms)
    /\ SameLength(annotation)
    /\ \A i \in 1..Len(annotations) : SameLength(annotations[i])
    /\ \A i \in 1..Len(result.annotations) : SameLength(result.annotations[i])
    /\ pc \in CascadeLabels \ {"L322"} =>
          (annotation.go_ids = go_ids /\ annotation.go_terms = go_terms)
    /\ pc = "L347" => DeliveredTogether(go_ids, go_terms, gos)
    /\ hist.raw.uniprot.asked => DeliveredTogether(go_ids, go_terms, hist.raw.uniprot.pairs)
    /\ hist.raw.ncbi.asked => DeliveredTogether(go_ids, go_terms, hist.raw.ncbi.pairs)

\* Primary has just delivered a GO id without a description, and the record
\* holds it with an empty description
C14_Witness ==
    /\ pc = "L347"
    /\ Len(gos) = 1 /\ gos[1].desc = EmptyStr
    /\ annotation.go_ids = << GO_0008150 >>
    /\ annotation.go_terms = << EmptyStr >>

(***************************************************************************)
(* C15                                                                      *)
(***************************************************************************)
\* the record carries the flag
Flagged(a, flag) == flag \in DOMAIN a /\ a[flag] = TRUE

\* what happened to the record of this cascade, read from the history and
\* from the locals: which key was resolved, which source changed the symbol,
\* which source made the GO list longer
UniprotKeyResolved ==
    "get_uniprot_id_from_ensembl" \in hist.issued /\ Truthy(uniprot_id)
NcbiKeyResolved ==
    "get_ncbi_gene_id_from_ensembl" \in hist.issued /\ Truthy(ncbi_gene_id)
UniprotSetSymbol == hist.after_uniprot.gene_symbol # hist.primary_record.gene_symbol
UniprotAppendedGo == Len(hist.after_uniprot.go_ids) > Len(hist.primary_record.go_ids)
NcbiSetSymbol == annotation.gene_symbol # hist.after_uniprot.gene_symbol
NcbiAppendedGo == Len(annotation.go_ids) > Len(hist.after_uniprot.go_ids)

FlagsTellWhatHappened ==
    /\ Flagged(annotation, "_uniprot_fallback_used") <=> UniprotKeyResolved
    /\ Flagged(annotation, "_uniprot_fallback_used") => Incomplete(hist.primary_record)
    /\ Flagged(annotation, "_uniprot_symbol_added") <=> UniprotSetSymbol
    /\ Flagged(annotation, "_uniprot_go_added") <=> UniprotAppendedGo
    /\ Flagged(annotation, "_ncbi_fallback_used") <=> NcbiKeyResolved
    /\ Flagged(annotation, "_ncbi_fallback_used") => Incomplete(hist.after_uniprot)
    /\ Flagged(annotation, "_ncbi_symbol_added") <=> NcbiSetSymbol
    /\ Flagged(annotation, "_ncbi_go_added") <=> NcbiAppendedGo

HowMany(flag) == Cardinality({i \in 1..Len(annotations) : Flagged(annotations[i], flag)})

\* C15: a record is appended with exactly the flags of what happened to it
\* (key resolved while incomplete, symbol set by the source, GO list made
\* longer by the source), and each of the six counters of the result is the
\* number of appended records that carry the matching flag.
C15_CountersCountFlaggedRecords ==
    [][ /\ (pc = "L426" /\ pc' = "L312") =>
              /\ FlagsTellWhatHappened
              /\ annotations' = Append(annotations, annotation)
        /\ (pc = "L312" /\ pc' = "done") =>
              /\ result'.meta.uniprot_fallback.fallback_used_count
                    = HowMany("_uniprot_fallback_used")
              /\ result'.meta.uniprot_fallback.symbols_added_from_uniprot
                    = HowMany("_uniprot_symbol_added")
              /\ result'.meta.uniprot_fallback.go_terms_added_from_uniprot
                    = HowMany("_uniprot_go_added")
              /\ result'.meta.ncbi_fallback.fallback_used_count
                    = HowMany("_ncbi_fallback_used")
              /\ result'.meta.ncbi_fallback.symbols_added_from_ncbi
                    = HowMany("_ncbi_symbol_added")
              /\ result'.meta.ncbi_fallback.go_terms_added_from_ncbi
                    = HowMany("_ncbi_go_added") ]_vars

\* two records: the counters differ from one another and from the number of records
C15_Witness ==
    /\ pc = "done"
    /\ Len(result.annotations) = 2
    /\ result.meta.uniprot_fallback.fallback_used_count = 2
    /\ result.meta.uniprot_fallback.symbols_added_from_uniprot = 1
    /\ result.meta.uniprot_fallback.go_terms_added_from_uniprot = 0
    /\ result.meta.ncbi_fallback.fallback_used_count = 1
    /\ result.meta.ncbi_fallback.go_terms_added_from_ncbi = 1

(***************************************************************************)
(* C16                                                                      *)
(***************************************************************************)
PublicFields == {"ensembl_id", "gene_symbol", "go_ids", "go_terms"}

\* C16: every record of a returned result has exactly the four public fields
\* ensembl_id, gene_symbol, go_ids, go_terms; no provenance flag is left,
\* whichever fallbacks were consulted.
C16_OnlyPublicFields ==
    pc = "done" =>
        \A i \in 1..Len(result.annotations) :
            DOMAIN result.annotations[i] = PublicFields

\* a returned batch in which both fallbacks were consulted and the last flag
\* the code pops had been set
C16_Witness ==
    /\ pc = "done"
    /\ Len(result.annotations) >= 1
    /\ result.meta.uniprot_fallback.fallback_used_count >= 1
    /\ result.meta.ncbi_fallback.fallback_used_count >= 1
    /\ result.meta.ncbi_fallback.symbols_added_from_ncbi >= 1
    /\ result.meta.ncbi_fallback.go_terms_added_from_ncbi >= 1

(***************************************************************************)
(* C17                                                                      *)
(***************************************************************************)
\* the record a request that runs alone emits for an identifier, against the
\* scripted providers
AloneRecord(id) ==
    IF id = GENEX
    THEN [ensembl_id |-> GENEX, gene_symbol |-> Str(ABC1),
          go_ids |-> << GO_0005515, GO_BAD >>,
          go_terms |-> << Text("protein binding"), Text("x") >>]
    ELSE IF id = X8
    THEN [ensembl_id |-> X8, gene_symbol |-> EmptyStr, go_ids |-> << >>, go_terms |-> << >>]
    ELSE [ensembl_id |-> id, gene_symbol |-> Str(ABC1),
          go_ids |-> << GO_0005515 >>, go_terms |-> << Text("protein binding") >>]

HowManyOf(id, l) == Cardinality({i \in 1..Len(l) : l[i] = id})

\* the result a request with input l returns when it runs alone
AloneResult(l) ==
    LET c == truncate(clean_ids(l))
        goes == HowManyOf(GENEX, c)
    IN [annotations |-> [i \in 1..Len(c) |-> AloneRecord(c[i])],
        gene_symbols |->
           sorted({AloneRecord(c[i]).gene_symbol : i \in 1..Len(c)} \ {EmptyStr}),
        go_ids |->
           sorted_str(UNION {{AloneRecord(c[i]).go_ids[j] :
                                 j \in 1..Len(AloneRecord(c[i]).go_ids)} : i \in 1..Len(c)}),
        meta |-> [version |-> VERSION, count_input |-> Len(l), count_processed |-> Len(c),
                  uniprot_fallback |->
                     [enabled |-> TRUE, fallback_used_count |-> goes,
                      symbols_added_from_uniprot |-> goes,
                      go_terms_added_from_uniprot |-> 0],
                  ncbi_fallback |->
                     [enabled |-> TRUE, fallback_used_count |-> goes,
                      symbols_added_from_ncbi |-> 0,
                      go_terms_added_from_ncbi |-> goes]]]

\* C17: a request that no other request joins returns AloneResult of its
\* input; a request whose steps interleave with those of a second request
\* returns the same result (records, gene_symbols, go_ids, counters), and so
\* does the second request.
C17_ConcurrentRequestsAsAlone ==
    /\ pc = "done" => result = AloneResult(id_list)
    /\ (other.present /\ other.pc = "done") => other.result = AloneResult(other.id_list)

\* both requests have returned; their inputs, and so their sets of GO ids, differ
C17_Witness ==
    /\ pc = "done"
    /\ other.present
    /\ other.pc = "done"
    /\ id_list = << X8, G1 >>
    /\ other.id_list = << GENEX >>
    /\ result.go_ids = << GO_0005515 >>

(***************************************************************************)
(* C18                                                                      *)
(***************************************************************************)
\* 429, 503 or a transport fault
Retryable(o) == o.kind = "fault" \/ (o.kind = "resp" /\ o.status \in {429, 503})

RetryableSoFar == Cardinality({i \in 1..Len(outcomes) : Retryable(outcomes[i])})

\* C18: a transport call makes at most 5 attempts; when all 5 end in 429, 503
\* or a transport fault the call raises and returns no response, and it
\* raises in no other case; one sleep is taken after every retryable outcome
\* of either kind, and the k-th sleep lasts 2^(k-1): 1, 2, 4, 8, 16.
C18_FiveAttemptsDoublingBackoff ==
    pc \in {"retry_get", "retry_post"} =>
        /\ http.attempt = Len(outcomes)
        /\ http.attempt <= 5
        /\ (Len(outcomes) = 5 /\ \A i \in 1..5 : Retryable(outcomes[i]))
              => (http.st = "raised" /\ http.r = NoResponse)
        /\ http.st = "raised"
              => (Len(outcomes) = 5 /\ \A i \in 1..5 : Retryable(outcomes[i]))
        /\ Len(http.sleeps) = RetryableSoFar
        /\ \A j \in 1..Len(http.sleeps) : http.sleeps[j] = 2 ^ (j - 1)

\* five retryable outcomes of both kinds, five sleeps, the raise
C18_Witness ==
    /\ pc = "retry_get"
    /\ http.st = "raised"
    /\ http.sleeps = << 1, 2, 4, 8, 16 >>
    /\ outcomes = << Resp(429, NoBody), Fault, Resp(503, NoBody), Fault, Resp(429, NoBody) >>

(***************************************************************************)
(* C19                                                                      *)
(***************************************************************************)
\* a non-empty symbol and at least one GO term
CompleteRecord(a) == a.gene_symbol # EmptyStr /\ a.go_ids # << >>

IsPrefix(a, b) == Len(a) <= Len(b) /\ SubSeq(b, 1, Len(a)) = a

\* C19: from the moment the record of an identifier exists, a step of its
\* cascade taken while the record is complete leaves gene_symbol, go_ids and
\* go_terms as they are; any step either keeps gene_symbol or takes it from
\* empty to non-empty, and go_ids and go_terms only get longer at the end;
\* the record is appended to the batch with the fields it has then.
C19_MonotoneThenFrozen ==
    [][ /\ (pc \in CascadeLabels \ {"L322"}) =>
              /\ CompleteRecord(annotation) =>
                    /\ annotation'.gene_symbol = annotation.gene_symbol
                    /\ annotation'.go_ids = annotation.go_ids
                    /\ annotation'.go_terms = annotation.go_terms
              /\ \/ annotation'.gene_symbol = annotation.gene_symbol
                 \/ annotation.gene_symbol = EmptyStr /\ annotation'.gene_symbol # EmptyStr
              /\ IsPrefix(annotation.go_ids, annotation'.go_ids)
              /\ IsPrefix(annotation.go_terms, annotation'.go_terms)
        /\ (pc = "L426") =>
              /\ annotations'[Len(annotations')].gene_symbol = annotation.gene_symbol
              /\ annotations'[Len(annotations')].go_ids = annotation.go_ids
              /\ annotations'[Len(annotations')].go_terms = annotation.go_terms
      ]_vars

\* the Primary lookups gave GO terms but no symbol, UniProt set the symbol and
\* so completed the record, and the steps after that have been taken
C19_Witness ==
    /\ pc = "L426"
    /\ hist.primary_record.gene_symbol = EmptyStr
    /\ hist.primary_record.go_ids # << >>
    /\ Flagged(annotation, "_uniprot_symbol_added")
    /\ CompleteRecord(annotation)
    /\ annotation.go_ids = hist.primary_record.go_ids
    /\ "get_go_terms_from_uniprot" \notin hist.issued

(***************************************************************************)
(* C20                                                                      *)
(***************************************************************************)
\* the step calls the adapter function
Issues(name) == name \notin hist.issued /\ name \in hist'.issued

\* C20: in the UniProt stage with a resolved key, the step at the symbol
\* lookup calls get_gene_symbol_from_uniprot if and only if the record's
\* gene_symbol is empty then, and the step at the GO lookup calls
\* get_go_terms_from_uniprot if and only if the record's go_ids is empty then;
\* the same holds in the NCBI stage for get_gene_symbol_from_ncbi and
\* get_go_terms_from_ncbi.  No other step calls these four functions.
C20_LookupIffFieldEmpty ==
    [][ /\ pc = "L360" => /\ Truthy(uniprot_id)
                          /\ Issues("get_gene_symbol_from_uniprot")
                                <=> annotation.gene_symbol = EmptyStr
        /\ pc = "L371" => /\ Truthy(uniprot_id)
                          /\ Issues("get_go_terms_from_uniprot")
                                <=> annotation.go_ids = << >>
        /\ pc = "L399" => /\ Truthy(ncbi_gene_id)
                          /\ Issues("get_gene_symbol_from_ncbi")
                                <=> annotation.gene_symbol = EmptyStr
        /\ pc = "L410" => /\ Truthy(ncbi_gene_id)
                          /\ Issues("get_go_terms_from_ncbi")
                                <=> annotation.go_ids = << >>
        /\ pc # "L360" => ~Issues("get_gene_symbol_from_uniprot")
        /\ pc # "L371" => ~Issues("get_go_terms_from_uniprot")
        /\ pc # "L399" => ~Issues("get_gene_symbol_from_ncbi")
        /\ pc # "L410" => ~Issues("get_go_terms_from_ncbi")
      ]_vars

\* UniProt filled the symbol and found no GO term; NCBI resolved a key, was
\* not asked for the symbol and was asked for the GO terms
C20_Witness ==
    /\ pc = "L426"
    /\ Flagged(annotation, "_uniprot_symbol_added")
    /\ Flagged(annotation, "_ncbi_fallback_used")
    /\ "get_go_terms_from_uniprot" \in hist.issued
    /\ "get_gene_symbol_from_ncbi" \notin hist.issued
    /\ "get_go_terms_from_ncbi" \in hist.issued

(***************************************************************************)
(* C21                                                                      *)
(***************************************************************************)
\* annotate_ensembl_ids has returned or raised
Terminated == pc \in {"done", "raised"}

\* C21: whatever the providers do, the cascade of an identifier makes at most
\* 50 transport attempts (10 calls of at most 5 attempts: 2 Primary, at most 3
\* UniProt searches, 2 UniProt lookups, 3 NCBI), and the run terminates; when
\* it returns, every identifier of the cleaned input has its record, and it
\* raises only where a symbol that is not a string was met (lines 347, 388,
\* 461), never because of what the transport attempts did.
C21_BoundedAttemptsAndTermination ==
    /\ [](hist.attempts <= 50)
    /\ [](pc = "done" => Len(result.annotations) = Len(ids))
    /\ [](pc = "raised" => NonStringSymbolMet)
    /\ <>Terminated

\* a cascade that took all 50 attempts, and whose record is being emitted
C21_Witness ==
    /\ pc = "L426"
    /\ hist.attempts = 50
    /\ FallbackAdapters \subseteq hist.issued

(***************************************************************************)
(* C22                                                                      *)
(***************************************************************************)
\* at most one source is flagged for the symbol and at most one for the GO
\* terms, and a source flagged for a contribution is flagged as consulted
OneSourcePerField(a) ==
    /\ ~(Flagged(a, "_uniprot_symbol_added") /\ Flagged(a, "_ncbi_symbol_added"))
    /\ ~(Flagged(a, "_uniprot_go_added") /\ Flagged(a, "_ncbi_go_added"))
    /\ Flagged(a, "_uniprot_symbol_added") => Flagged(a, "_uniprot_fallback_used")
    /\ Flagged(a, "_uniprot_go_added") => Flagged(a, "_uniprot_fallback_used")
    /\ Flagged(a, "_ncbi_symbol_added") => Flagged(a, "_ncbi_fallback_used")
    /\ Flagged(a, "_ncbi_go_added") => Flagged(a, "_ncbi_fallback_used")

\* C22: in the record of the cascade and in every appended record at most one
\* fallback source has set the symbol and at most one has added GO terms, and
\* only a source whose key was resolved for the record has done so; in a
\* returned result symbols_added_from_uniprot + symbols_added_from_ncbi and
\* go_terms_added_from_uniprot + go_terms_added_from_ncbi are at most
\* count_processed, and each source's symbols_added and go_terms_added are at
\* most its fallback_used_count, which is at most count_processed.
C22_OneContributorPerField ==
    /\ pc \in CascadeLabels \ {"L322"} =>
          /\ OneSourcePerField(annotation)
          /\ pc = "L426" =>
                /\ ~(UniprotSetSymbol /\ NcbiSetSymbol)
                /\ ~(UniprotAppendedGo /\ NcbiAppendedGo)
                /\ (UniprotSetSymbol \/ UniprotAppendedGo) => UniprotKeyResolved
                /\ (NcbiSetSymbol \/ NcbiAppendedGo) => NcbiKeyResolved
    /\ \A i \in 1..Len(annotations) : OneSourcePerField(annotations[i])
    /\ pc = "done" =>
          LET u == result.meta.uniprot_fallback
              n == result.meta.ncbi_fallback
              processed == result.meta.count_processed
          IN /\ u.symbols_added_from_uniprot + n.symbols_added_from_ncbi <= processed
             /\ u.go_terms_added_from_uniprot + n.go_terms_added_from_ncbi <= processed
             /\ u.symbols_added_from_uniprot <= u.fallback_used_count
             /\ u.go_terms_added_from_uniprot <= u.fallback_used_count
             /\ n.symbols_added_from_ncbi <= n.fallback_used_count
             /\ n.go_terms_added_from_ncbi <= n.fallback_used_count
             /\ u.fallback_used_count <= processed
             /\ n.fallback_used_count <= processed

\* two records; each field got its value from UniProt in one record and from
\* NCBI in the other, so both sums equal count_processed
C22_Witness ==
    /\ pc = "done"
    /\ result.meta.count_processed = 2
    /\ result.meta.uniprot_fallback.symbols_added_from_uniprot = 1
    /\ result.meta.ncbi_fallback.symbols_added_from_ncbi = 1
    /\ result.meta.uniprot_fallback.go_terms_added_from_uniprot = 1
    /\ result.meta.ncbi_fallback.go_terms_added_from_ncbi = 1
====
